---------------------------- MODULE Spec2Model ----------------------------
(***************************************************************************)
(* A model of the three demo services of the repository:                   *)
(*   - the movie search CRUD service (code/search-engine/backend/main.go), *)
(*   - the currency-converter proxy (convertHandler, fetchRate, withCORS), *)
(*   - the travel-blog CMS backend (App.* handlers over Postgres).         *)
(* Each service has its own specification (SpecSearch, SpecConvert,        *)
(* SpecTravel); the variables of the other services keep their initial     *)
(* value while one service runs.                                           *)
(*                                                                         *)
(* Texts that the code inspects character by character (numbers in query   *)
(* parameters, names that are trimmed, currency codes that are upper-cased,*)
(* dates that are parsed) are sequences of one-character strings.          *)
(***************************************************************************)
EXTENDS Integers, Sequences, FiniteSets, TLC

VARIABLES
    esIndex,     \* search: the "movies" index, document id -> _source
    esVisible,   \* search: the documents the index's last refresh made searchable
    esExists,    \* search: whether the "movies" index has been created
    uuidNext,    \* search: how many ids uuid.NewString() has handed out
    phase,       \* search: "boot" | "serving" | "crashed" (main's position)
    sreq,        \* search: the request handled last
    esCalls,     \* search: the calls that request made to Elasticsearch
    sresp,       \* search: the response written for it
    creq,        \* convert: the request handled last
    cfetch,      \* convert: the calls that request made to rateFetcher
    cresp,       \* convert: the response written for it
    countries,   \* travel: table countries, id -> row
    places,      \* travel: table places, id -> row
    countrySeq,  \* travel: last value of countries_id_seq
    placeSeq,    \* travel: last value of places_id_seq
    treq,        \* travel: the request handled last
    tsql,        \* travel: the SQL statements that request sent to the database
    tresp,       \* travel: the response written for it
    tclients     \* travel: the requests of concurrent clients, statement by statement

searchVars == <<esIndex, esVisible, esExists, uuidNext, phase, sreq, esCalls, sresp>>
convertVars == <<creq, cfetch, cresp>>
travelVars == <<countries, places, countrySeq, placeSeq, treq, tsql, tresp, tclients>>
vars == <<searchVars, convertVars, travelVars>>

(***************************************************************************)
(* Characters and texts.                                                   *)
(***************************************************************************)
Digits == <<"0", "1", "2", "3", "4", "5", "6", "7", "8", "9">>

IsDigit(c) == \E i \in 1..Len(Digits) : Digits[i] = c

DigitVal(c) == (CHOOSE i \in 1..Len(Digits) : Digits[i] = c) - 1

\* unicode.IsSpace on the characters the model uses.
IsSpace(c) == c \in {" ", "\t", "\n"}

RECURSIVE TrimLeft(_)
TrimLeft(s) ==
    IF s # <<>> /\ IsSpace(Head(s)) THEN TrimLeft(Tail(s)) ELSE s

RECURSIVE TrimRight(_)
TrimRight(s) ==
    IF s # <<>> /\ IsSpace(s[Len(s)]) THEN TrimRight(SubSeq(s, 1, Len(s) - 1)) ELSE s

\* strings.TrimSpace
TrimSpace(s) == TrimRight(TrimLeft(s))

Lower == <<"a", "b", "c", "d", "e", "f", "g", "h", "i", "j", "k", "l", "m",
           "n", "o", "p", "q", "r", "s", "t", "u", "v", "w", "x", "y", "z">>
Upper == <<"A", "B", "C", "D", "E", "F", "G", "H", "I", "J", "K", "L", "M",
           "N", "O", "P", "Q", "R", "S", "T", "U", "V", "W", "X", "Y", "Z">>

UpperChar(c) ==
    IF \E i \in 1..Len(Lower) : Lower[i] = c
    THEN Upper[CHOOSE i \in 1..Len(Lower) : Lower[i] = c]
    ELSE c

\* strings.ToUpper
ToUpper(s) == [i \in 1..Len(s) |-> UpperChar(s[i])]

(***************************************************************************)
(* Go's int on the 64-bit targets the services are built for: a two's      *)
(* complement word of four 16-bit limbs, least significant first, so that  *)
(* every intermediate value stays inside the checker's own integers.       *)
(***************************************************************************)
LimbBase == 2 ^ 16
LimbHalf == 2 ^ 15

\* The word of a small integer n (|n| < 2^31), sign-extended.
I64(n) ==
    LET l1 == n % LimbBase
        n1 == (n - l1) \div LimbBase
        l2 == n1 % LimbBase
        ext == IF n < 0 THEN LimbBase - 1 ELSE 0
    IN  <<l1, l2, ext, ext>>

I64IsNeg(w) == w[4] >= LimbHalf

\* w fits the checker's integers (it is in -2^30 .. 2^30 - 1).
I64IsSmall(w) ==
    \/ w[3] = 0 /\ w[4] = 0 /\ w[2] < LimbHalf \div 2
    \/ w[3] = LimbBase - 1 /\ w[4] = LimbBase - 1 /\ w[2] >= LimbBase - LimbHalf \div 2

I64ToInt(w) ==
    IF w[4] = 0 THEN w[2] * LimbBase + w[1]
    ELSE (w[2] - LimbBase) * LimbBase + w[1]

\* w * k + c for small k, c >= 0: the low 64 bits, and the carry out of them.
MulAddLimbs(w, k, c) ==
    LET t1 == w[1] * k + c
        t2 == w[2] * k + (t1 \div LimbBase)
        t3 == w[3] * k + (t2 \div LimbBase)
        t4 == w[4] * k + (t3 \div LimbBase)
    IN  [limbs |-> <<t1 % LimbBase, t2 % LimbBase, t3 % LimbBase, t4 % LimbBase>>,
         carry |-> t4 \div LimbBase]

\* Go's int multiplication by a small non-negative int: the low 64 bits.
I64Mul(w, k) == MulAddLimbs(w, k, 0).limbs

\* w - 1, wrapping.
RECURSIVE DecLimbs(_, _)
DecLimbs(w, i) ==
    IF i > Len(w) THEN w
    ELSE IF w[i] > 0 THEN [w EXCEPT ![i] = @ - 1]
    ELSE DecLimbs([w EXCEPT ![i] = LimbBase - 1], i + 1)

I64Dec(w) == DecLimbs(w, 1)

\* 0 - w, wrapping: complement every limb and add one.
I64Neg(w) ==
    LET inv == [i \in 1..4 |-> LimbBase - 1 - w[i]]
    IN  MulAddLimbs(inv, 1, 1).limbs

\* Unsigned comparison of two limb sequences of the same length.
RECURSIVE LimbsLess(_, _, _)
LimbsLess(a, b, i) ==
    IF i = 0 THEN FALSE
    ELSE IF a[i] # b[i] THEN a[i] < b[i]
    ELSE LimbsLess(a, b, i - 1)

\* 2^63 as an unsigned word: ParseInt's cutoff.
Cutoff63 == <<0, 0, 0, LimbHalf>>

\* strconv.ParseUint(s, 10, 64) on a text of digits: ok is FALSE for an empty
\* text, a character that is no digit, or a value above 2^64 - 1.
RECURSIVE ParseUintFrom(_, _, _)
ParseUintFrom(s, i, acc) ==
    IF i > Len(s) THEN [ok |-> TRUE, val |-> acc]
    ELSE IF ~IsDigit(s[i]) THEN [ok |-> FALSE, val |-> acc]
    ELSE LET r == MulAddLimbs(acc, 10, DigitVal(s[i]))
         IN  IF r.carry # 0 THEN [ok |-> FALSE, val |-> acc]
             ELSE ParseUintFrom(s, i + 1, r.limbs)

ParseUint(s) ==
    IF s = <<>> THEN [ok |-> FALSE, val |-> I64(0)]
    ELSE ParseUintFrom(s, 1, I64(0))

\* strconv.ParseInt(s, 10, 64) (and strconv.Atoi, which agrees with it on a
\* 64-bit int): an optional sign, then digits; out of range is an error.
ParseInt(s) ==
    LET signed == s # <<>> /\ Head(s) \in {"+", "-"}
        neg == s # <<>> /\ Head(s) = "-"
        u == ParseUint(IF signed THEN Tail(s) ELSE s)
    IN  IF ~u.ok THEN [ok |-> FALSE, val |-> I64(0)]
        ELSE IF ~neg /\ ~LimbsLess(u.val, Cutoff63, 4) THEN [ok |-> FALSE, val |-> I64(0)]
        ELSE IF neg /\ LimbsLess(Cutoff63, u.val, 4) THEN [ok |-> FALSE, val |-> I64(0)]
        ELSE [ok |-> TRUE, val |-> IF neg THEN I64Neg(u.val) ELSE u.val]


\* Signed comparison a < b of two words.
I64Less(a, b) ==
    IF I64IsNeg(a) # I64IsNeg(b) THEN I64IsNeg(a) ELSE LimbsLess(a, b, 4)

(***************************************************************************)
(* The movie search service.                                               *)
(*                                                                         *)
(* A JSON value of a document's _source is [t |-> "string" | "number",     *)
(* v |-> value]; a _source is a function from the keys it holds to such    *)
(* values.  Ratings are float64 in the code and tenths here (8.8 is 88).   *)
(***************************************************************************)
JStr(v) == [t |-> "string", v |-> v]
JNum(v) == [t |-> "number", v |-> v]

\* The zero value of Movie.
ZeroMovie ==
    [id |-> "", title |-> "", description |-> "", genre |-> "",
     rating |-> 0, release_year |-> 0]

DefaultPage == 1
DefaultPageSize == 5
MaxPageSize == 50

\* The ids uuid.NewString() hands out, in order: fresh and never repeated.
Uuids == <<"u1", "u2", "u3", "u4", "u5", "u6", "u7", "u8", "u9">>

\* seedData of seedMovies.
SeedData ==
    << [ZeroMovie EXCEPT !.title = "Inception", !.genre = "Sci-Fi", !.rating = 88,
            !.description = "A thief who steals corporate secrets through dream-sharing technology.",
            !.release_year = 2010],
       [ZeroMovie EXCEPT !.title = "The Dark Knight", !.genre = "Action", !.rating = 90,
            !.description = "Batman battles the Joker in Gotham City.",
            !.release_year = 2008],
       [ZeroMovie EXCEPT !.title = "Interstellar", !.genre = "Sci-Fi", !.rating = 86,
            !.description = "Explorers travel through a wormhole in space in an attempt to ensure humanity's survival.",
            !.release_year = 2014],
       [ZeroMovie EXCEPT !.title = "La La Land", !.genre = "Musical", !.rating = 80,
            !.description = "A jazz pianist falls for an aspiring actress in Los Angeles.",
            !.release_year = 2016],
       [ZeroMovie EXCEPT !.title = "The Godfather", !.genre = "Crime", !.rating = 92,
            !.description = "The aging patriarch of an organized crime dynasty transfers control to his reluctant son.",
            !.release_year = 1972] >>

\* movieJSON of indexMovie: the five stored fields; the id is not among them.
MovieJSON(movie) ==
    [k \in {"title", "description", "genre", "rating", "release_year"} |->
        CASE k = "title" -> JStr(movie.title)
          [] k = "description" -> JStr(movie.description)
          [] k = "genre" -> JStr(movie.genre)
          [] k = "rating" -> JNum(movie.rating)
          [] k = "release_year" -> JNum(movie.release_year)]

\* source[key].(string) with its ok flag folded in: the text, or "" when the
\* key is missing or holds no string.
SourceString(source, key) ==
    IF key \in DOMAIN source /\ source[key].t = "string" THEN source[key].v ELSE ""

\* source[key].(float64): encoding/json decodes every JSON number into a
\* float64, so the json.Number branches never run.
SourceNumber(source, key) ==
    IF key \in DOMAIN source /\ source[key].t = "number" THEN source[key].v ELSE 0

mapToMovie(source) ==
    [id |-> "",
     title |-> SourceString(source, "title"),
     description |-> SourceString(source, "description"),
     genre |-> SourceString(source, "genre"),
     rating |-> SourceNumber(source, "rating"),
     release_year |-> SourceNumber(source, "release_year")]

parseIntWithDefault(value, def) ==
    IF value = <<>> THEN I64(def)
    ELSE LET parsed == ParseInt(value)
         IN  IF ~parsed.ok THEN I64(def) ELSE parsed.val

(***************************************************************************)
(* Elasticsearch as the handlers see it.  A call meets one of EsFaults:    *)
(* "none", "transport" (the client returns err), "status" (a response      *)
(* whose IsError() is true) or "decode" (a body the JSON decoder rejects). *)
(* Every call is recorded with its result: the fault it met, "none" for a  *)
(* success, or "not_found" for a 404.                                      *)
(* Get is real-time (it reads esIndex); Search and Count read what the     *)
(* last refresh made visible (esVisible).                                  *)
(***************************************************************************)
EsFaults == {"none", "transport", "status", "decode"}

\* One field of a multi_match query: "title^2" is the field title boosted by 2,
\* a bare name has boost 1.
Field(name, boost) == [name |-> name, boost |-> boost]

MatchAll == [kind |-> "match_all", query |-> "", fields |-> <<>>]

MultiMatch(query, fields) == [kind |-> "multi_match", query |-> query, fields |-> fields]

\* Whether a document answers a query.  Text analysis is reduced to equality of
\* the whole field with the query text.
EsMatches(source, query) ==
    \/ query.kind = "match_all"
    \/ /\ query.kind = "multi_match"
       /\ \E i \in 1..Len(query.fields) :
            SourceString(source, query.fields[i].name) = query.query

\* The sort key of "rating desc": documents without a rating come last.
EsRating(source) ==
    IF "rating" \in DOMAIN source /\ source["rating"].t = "number"
    THEN source["rating"].v ELSE -1

\* Every order of the ids in S that "sort": [{"rating": "desc"}] allows: ties are
\* broken as the index pleases.
RECURSIVE EsOrders(_, _)
EsOrders(visible, S) ==
    IF S = {} THEN {<<>>}
    ELSE LET top == {x \in S : \A y \in S : EsRating(visible[y]) <= EsRating(visible[x])}
         IN  UNION {{<<x>> \o t : t \in EsOrders(visible, S \ {x})} : x \in top}

EsHitIds(visible, query) == {id \in DOMAIN visible : EsMatches(visible[id], query)}

\* The page of hits [from, from + size) of an ordered result.
EsPage(order, from, size) ==
    IF I64IsSmall(from) /\ I64ToInt(from) < Len(order)
    THEN LET f == I64ToInt(from)
             l == IF f + size < Len(order) THEN f + size ELSE Len(order)
         IN  SubSeq(order, f + 1, l)
    ELSE <<>>

Hit(visible, id) == [id |-> id, source |-> visible[id]]

\* index.max_result_window, which createMovieIndex leaves at its default.
MaxResultWindow == 10000

\* A search is refused (a 400 response) when from is negative or from + size
\* reaches beyond the result window.
EsRefuses(from, size) ==
    \/ I64IsNeg(from)
    \/ ~I64IsSmall(from)
    \/ I64ToInt(from) + size > MaxResultWindow

(***************************************************************************)
(* Responses: a status code and a JSON body.                               *)
(***************************************************************************)
NoBody == [kind |-> "none"]
ErrorBody(msg) == [kind |-> "error", error |-> msg]
MovieBody(movie) == [kind |-> "movie", movie |-> movie]
SearchBody(movies, pagination) ==
    [kind |-> "search", movies |-> movies, pagination |-> pagination]

TextBody(text) == [kind |-> "text", text |-> text]

Response(status, body) == [status |-> status, body |-> body]

\* A response with the headers a middleware has set on the writer.
WithHeaders(resp, headers) ==
    [status |-> resp.status, body |-> resp.body, headers |-> headers]

StatusOK == 200
StatusCreated == 201
StatusNoContent == 204
StatusBadRequest == 400
StatusNotFound == 404
StatusMethodNotAllowed == 405
StatusInternalServerError == 500
StatusBadGateway == 502

\* What a handler did: the response it wrote, the Elasticsearch calls it made,
\* and the index it leaves.
Outcome(resp, calls, index, visible) ==
    [resp |-> resp, calls |-> calls, index |-> index, visible |-> visible]

\* gin's answer to a request that no route matches.
NoRoute == Response(StatusNotFound, TextBody("404 page not found"))

(***************************************************************************)
(* handleSearchMovies                                                      *)
(***************************************************************************)
\* if page < 1 { page = 1 }
ClampPage(page) == IF I64Less(page, I64(1)) THEN I64(1) ELSE page

\* A variant of the fallback that refuses pageSize = 50 as well.
EffectivePageSizeExclusive(pageSize) ==
    IF ~I64Less(I64(0), pageSize) \/ ~I64Less(pageSize, I64(MaxPageSize))
    THEN DefaultPageSize
    ELSE I64ToInt(pageSize)

\* if pageSize <= 0 || pageSize > 50 { pageSize = 5 }; the result is in 1..50.
EffectivePageSize(pageSize) ==
    IF ~I64Less(I64(0), pageSize) \/ I64Less(I64(MaxPageSize), pageSize)
    THEN DefaultPageSize
    ELSE I64ToInt(pageSize)

\* from := (page - 1) * pageSize, in Go's int.
SearchFrom(page, pageSize) == I64Mul(I64Dec(page), pageSize)

\* A variant of the query that weighs the three fields alike.
SearchQueryUnweighted(query) ==
    IF query = "" THEN MatchAll
    ELSE MultiMatch(query, <<Field("title", 1), Field("description", 1), Field("genre", 1)>>)

\* body["query"]
SearchQuery(query) ==
    IF query = "" THEN MatchAll
    ELSE MultiMatch(query, <<Field("title", 2), Field("description", 1), Field("genre", 1)>>)

SearchRequestBody(from, pageSize, query) ==
    [from |-> from, size |-> pageSize,
     sort |-> <<[field |-> "rating", order |-> "desc"]>>,
     query |-> SearchQuery(query)]

\* A variant of the mapping that prefers the id stored in the fields.
HitToMovieStoredId(hit) ==
    [mapToMovie(hit.source) EXCEPT
        !.id = IF SourceString(hit.source, "id") # ""
               THEN SourceString(hit.source, "id") ELSE hit.id]

\* movie := mapToMovie(hit.Source); movie.ID = hit.ID
HitToMovie(hit) == [mapToMovie(hit.source) EXCEPT !.id = hit.id]

\* A variant of the page count that rounds down.
TotalPagesFloor(totalHits, pageSize) == totalHits \div pageSize

\* totalPages := (totalHits + pageSize - 1) / pageSize
TotalPages(totalHits, pageSize) == (totalHits + pageSize - 1) \div pageSize

handleSearchMovies(index, visible, r, fault, order) ==
    LET page == ClampPage(parseIntWithDefault(r.page, DefaultPage))
        pageSize == EffectivePageSize(parseIntWithDefault(r.pageSize, DefaultPageSize))
        from == SearchFrom(page, pageSize)
        body == SearchRequestBody(from, pageSize, r.q)
        result == IF fault = "none" /\ EsRefuses(from, pageSize) THEN "status" ELSE fault
        calls == <<[api |-> "search", body |-> body, result |-> result]>>
        ids == EsPage(order, from, pageSize)
        hits == [i \in 1..Len(ids) |-> Hit(visible, ids[i])]
        movies == [i \in 1..Len(hits) |-> HitToMovie(hits[i])]
        totalHits == Len(order)
        fail(msg) == Outcome(Response(StatusInternalServerError, ErrorBody(msg)),
                             calls, index, visible)
    IN  IF result = "transport" THEN fail("search request failed")
        ELSE IF result = "status" THEN fail("search returned an error")
        ELSE IF result = "decode" THEN fail("failed to decode search results")
        ELSE Outcome(
                Response(StatusOK,
                    SearchBody(movies,
                        [page |-> page, page_size |-> pageSize, total_hits |-> totalHits,
                         total_pages |-> TotalPages(totalHits, pageSize)])),
                calls, index, visible)

(***************************************************************************)
(* indexMovie and the handlers that write.                                 *)
(***************************************************************************)
\* The index with document id set to source (created or replaced).
Put(index, id, source) ==
    [k \in DOMAIN index \cup {id} |-> IF k = id THEN source ELSE index[k]]

Remove(index, id) == [k \in DOMAIN index \ {id} |-> index[k]]

\* es.Index(movieIndex, body, WithDocumentID(id), WithRefresh("true")): err is
\* TRUE when the call or its response is an error; otherwise the document is
\* stored and the refresh makes every stored document searchable.
indexMovie(index, visible, id, movie, fault) ==
    LET failed == fault \in {"transport", "status"}
        call == [api |-> "index", id |-> id, source |-> MovieJSON(movie), refresh |-> TRUE,
                 result |-> IF failed THEN fault ELSE "none"]
    IN  IF failed
        THEN [err |-> TRUE, calls |-> <<call>>, index |-> index, visible |-> visible]
        ELSE LET stored == Put(index, id, MovieJSON(movie))
             IN  [err |-> FALSE, calls |-> <<call>>, index |-> stored, visible |-> stored]

\* ShouldBindJSON without the binding:"required" tag of Title.
BindMovieUnchecked(body) == body.ok

\* c.ShouldBindJSON(&input) for a Movie: the body decodes and the required
\* title is not the zero value.
BindMovie(body) == body.ok /\ body.movie.title # ""

handleGetMovie(index, visible, id, fault) ==
    LET result == IF fault \in {"none", "decode"} /\ id \notin DOMAIN index
                  THEN "not_found" ELSE fault
        calls == <<[api |-> "get", id |-> id, result |-> result]>>
        reply(status, body) == Outcome(Response(status, body), calls, index, visible)
    IN  IF result = "transport"
        THEN reply(StatusInternalServerError, ErrorBody("failed to fetch movie"))
        ELSE IF result = "not_found"
        THEN reply(StatusNotFound, ErrorBody("movie not found"))
        ELSE IF result = "status"
        THEN reply(StatusInternalServerError, ErrorBody("failed to fetch movie"))
        ELSE IF result = "decode"
        THEN reply(StatusInternalServerError, ErrorBody("failed to decode response"))
        ELSE reply(StatusOK, MovieBody([mapToMovie(index[id]) EXCEPT !.id = id]))

handleCreateMovie(index, visible, body, uuid, fault) ==
    IF ~BindMovie(body)
    THEN Outcome(Response(StatusBadRequest, ErrorBody("bind")), <<>>, index, visible)
    ELSE LET input == [body.movie EXCEPT !.id = uuid]
             w == indexMovie(index, visible, input.id, input, fault)
         IN  IF w.err
             THEN Outcome(Response(StatusInternalServerError, ErrorBody("failed to create movie")),
                          w.calls, w.index, w.visible)
             ELSE Outcome(Response(StatusCreated, MovieBody(input)), w.calls, w.index, w.visible)

handleUpdateMovie(index, visible, id, body, fault) ==
    IF ~BindMovie(body)
    THEN Outcome(Response(StatusBadRequest, ErrorBody("bind")), <<>>, index, visible)
    ELSE LET input == [body.movie EXCEPT !.id = id]
             w == indexMovie(index, visible, id, input, fault)
         IN  IF w.err
             THEN Outcome(Response(StatusInternalServerError, ErrorBody("failed to update movie")),
                          w.calls, w.index, w.visible)
             ELSE Outcome(Response(StatusOK, MovieBody(input)), w.calls, w.index, w.visible)

\* es.Delete(movieIndex, id, WithContext(ctx)): no refresh is asked for, so the
\* document stays searchable until the index refreshes.
handleDeleteMovie(index, visible, id, fault) ==
    LET result == IF fault \in {"transport", "status"} THEN fault
                  ELSE IF id \notin DOMAIN index THEN "not_found" ELSE "none"
        calls == <<[api |-> "delete", id |-> id, result |-> result]>>
        reply(status, body, idx) == Outcome(Response(status, body), calls, idx, visible)
    IN  IF result = "transport"
        THEN reply(StatusInternalServerError, ErrorBody("failed to delete movie"), index)
        ELSE IF result = "not_found"
        THEN reply(StatusNotFound, ErrorBody("movie not found"), index)
        ELSE IF result = "status"
        THEN reply(StatusInternalServerError, ErrorBody("failed to delete movie"), index)
        ELSE reply(StatusNoContent, NoBody, Remove(index, id))

(***************************************************************************)
(* main: bootstrapElasticsearch, then serving.                             *)
(***************************************************************************)
\* The seeding loop of seedMovies from seed i on; it stops at the first
\* indexMovie that fails (failK, 0 for none).
RECURSIVE SeedFrom(_, _, _, _, _)
SeedFrom(i, index, visible, next, failK) ==
    IF i > Len(SeedData)
    THEN [err |-> FALSE, calls |-> <<>>, index |-> index, visible |-> visible, next |-> next]
    ELSE LET id == Uuids[next + 1]
             w == indexMovie(index, visible, id, [SeedData[i] EXCEPT !.id = id],
                             IF i = failK THEN "status" ELSE "none")
         IN  IF w.err
             THEN [err |-> TRUE, calls |-> w.calls, index |-> w.index,
                   visible |-> w.visible, next |-> next + 1]
             ELSE LET rest == SeedFrom(i + 1, w.index, w.visible, next + 1, failK)
                  IN  [rest EXCEPT !.calls = w.calls \o @]

\* seedMovies: nothing to do when the index counts a document.
seedMovies(index, visible, next, failAt, failK) ==
    LET count == [api |-> "count", result |-> IF failAt \in {"count", "decode"} THEN failAt ELSE "none"]
        stop(err) == [err |-> err, calls |-> <<count>>, index |-> index,
                      visible |-> visible, next |-> next]
    IN  IF failAt = "count" \/ failAt = "decode" THEN stop(TRUE)
        ELSE IF Cardinality(DOMAIN visible) > 0 THEN stop(FALSE)
        ELSE LET s == SeedFrom(1, index, visible, next, IF failAt = "seed" THEN failK ELSE 0)
             IN  [s EXCEPT !.calls = <<count>> \o @]

BootFaults == {"none", "exists", "create", "count", "decode", "seed"}

bootstrapElasticsearch(exists, index, visible, next, failAt, failK) ==
    LET check == [api |-> "exists",
                  result |-> IF failAt = "exists" THEN "transport"
                             ELSE IF exists THEN "none" ELSE "not_found"]
        create == [api |-> "create_index",
                   result |-> IF failAt = "create" THEN "status" ELSE "none"]
        stop(calls, ex) == [err |-> TRUE, calls |-> calls, exists |-> ex, index |-> index,
                            visible |-> visible, next |-> next]
        pre == IF exists THEN <<check>> ELSE <<check, create>>
    IN  IF failAt = "exists" THEN stop(<<check>>, exists)
        ELSE IF ~exists /\ failAt = "create" THEN stop(pre, exists)
        ELSE LET s == seedMovies(index, visible, next, failAt, failK)
             IN  [err |-> s.err, calls |-> pre \o s.calls, exists |-> TRUE,
                  index |-> s.index, visible |-> s.visible, next |-> s.next]

(***************************************************************************)
(* The requests the movie service is driven with.                          *)
(***************************************************************************)
MaxCreated == 1

MaxInt64Text ==
    <<"9", "2", "2", "3", "3", "7", "2", "0", "3", "6",
      "8", "5", "4", "7", "7", "5", "8", "0", "7">>

Queries == {"", "Sci-Fi", "Dune"}

PageParams == {<<>>, <<"0">>, <<"-", "1">>, <<"2">>, MaxInt64Text}

SizeParams == {<<>>, <<"0">>, <<"-", "5">>, <<"2">>, <<"5">>, <<"5", "0">>, <<"5", "1">>,
               <<"2", ".", "5">>}

IdParams == {"u1", "u6", "zz"}

BadJSON == [ok |-> FALSE, movie |-> ZeroMovie]

MovieBodies ==
    { BadJSON,
      [ok |-> TRUE, movie |-> [ZeroMovie EXCEPT !.genre = "Sci-Fi"]],
      [ok |-> TRUE, movie |-> [ZeroMovie EXCEPT !.id = "zz", !.title = "Dune",
                                !.genre = "Sci-Fi", !.rating = 80, !.release_year = 2021]] }

NoRequest == [op |-> "none"]
NoResponse == Response(0, NoBody)
EmptyIndex == [id \in {} |-> JStr("")]

searchIdle ==
    /\ esIndex = EmptyIndex
    /\ esVisible = EmptyIndex
    /\ esExists = FALSE
    /\ uuidNext = 0
    /\ phase = "boot"
    /\ sreq = NoRequest
    /\ esCalls = <<>>
    /\ sresp = NoResponse

\* The service is modelled one request at a time: a request is taken up when
\* the last one has been answered.
Accepting == phase = "serving" /\ sreq = NoRequest

\* The methods of the routes of main; a request of another method matches no
\* route.
MovieRoute(op) ==
    CASE op = "search" -> "GET"
      [] op = "get" -> "GET"
      [] op = "create" -> "POST"
      [] op = "update" -> "PUT"
      [] op = "delete" -> "DELETE"
      [] op = "options" -> "OPTIONS"

MovieCorsHeaders ==
    {<<"Access-Control-Allow-Origin", "*">>,
     <<"Access-Control-Allow-Methods", "GET, POST, PUT, DELETE, OPTIONS">>,
     <<"Access-Control-Allow-Headers", "Content-Type">>}

\* A variant of corsMiddleware that hands every request on, OPTIONS too.
corsMiddlewarePassing(method, index, visible, next) ==
    [next EXCEPT !.resp = WithHeaders(@, MovieCorsHeaders)]

\* corsMiddleware(): next is what the rest of the chain does when c.Next()
\* runs it; c.AbortWithStatus(204) writes the status and runs nothing more.
corsMiddleware(method, index, visible, next) ==
    IF method = "OPTIONS"
    THEN Outcome(WithHeaders(Response(StatusNoContent, NoBody), MovieCorsHeaders),
                 <<>>, index, visible)
    ELSE [next EXCEPT !.resp = WithHeaders(@, MovieCorsHeaders)]

\* A request goes through router.Use(corsMiddleware()) to its handler, and
\* the outcome becomes the state.
Serve(request, out) ==
    /\ sreq' = request
    /\ \E served \in {corsMiddleware(MovieRoute(request.op), esIndex, esVisible, out)} :
          /\ sresp' = served.resp
          /\ esCalls' = served.calls
          /\ esIndex' = served.index
          /\ esVisible' = served.visible
    /\ UNCHANGED <<esExists, phase>>
    /\ UNCHANGED <<convertVars, travelVars>>

Bootstrap ==
    /\ phase = "boot"
    /\ esVisible = EmptyIndex => uuidNext + Len(SeedData) <= Len(Uuids)
    /\ \E failAt \in BootFaults, failK \in 1..Len(SeedData) :
         \E b \in {bootstrapElasticsearch(esExists, esIndex, esVisible, uuidNext, failAt, failK)} :
             /\ esExists' = b.exists
             /\ esIndex' = b.index
             /\ esVisible' = b.visible
             /\ uuidNext' = b.next
             /\ esCalls' = b.calls
             /\ phase' = IF b.err THEN "crashed" ELSE "serving"
             /\ sreq' = [op |-> "boot"]
             /\ sresp' = NoResponse
    /\ UNCHANGED <<convertVars, travelVars>>

SearchMovies ==
    /\ Accepting
    /\ \E q \in Queries :
         \E order \in EsOrders(esVisible, EsHitIds(esVisible, SearchQuery(q))) :
            \E page \in PageParams, pageSize \in SizeParams, fault \in EsFaults :
                LET r == [op |-> "search", q |-> q, page |-> page, pageSize |-> pageSize]
                IN  \E o \in {handleSearchMovies(esIndex, esVisible, r, fault, order)} :
                        Serve(r, o)
    /\ UNCHANGED uuidNext

GetMovie ==
    /\ Accepting
    /\ \E id \in IdParams, fault \in EsFaults :
         \E o \in {handleGetMovie(esIndex, esVisible, id, fault)} :
            Serve([op |-> "get", id |-> id], o)
    /\ UNCHANGED uuidNext

CreateMovie ==
    /\ Accepting
    /\ uuidNext < Len(SeedData) + MaxCreated
    /\ uuidNext < Len(Uuids)
    /\ \E body \in MovieBodies, fault \in EsFaults :
         /\ \E o \in {handleCreateMovie(esIndex, esVisible, body, Uuids[uuidNext + 1], fault)} :
                Serve([op |-> "create", body |-> body], o)
         /\ uuidNext' = IF BindMovie(body) THEN uuidNext + 1 ELSE uuidNext

UpdateMovie ==
    /\ Accepting
    /\ \E id \in IdParams, body \in MovieBodies, fault \in EsFaults :
         \E o \in {handleUpdateMovie(esIndex, esVisible, id, body, fault)} :
            Serve([op |-> "update", id |-> id, body |-> body], o)
    /\ UNCHANGED uuidNext

DeleteMovie ==
    /\ Accepting
    /\ \E id \in IdParams, fault \in EsFaults :
         \E o \in {handleDeleteMovie(esIndex, esVisible, id, fault)} :
            Serve([op |-> "delete", id |-> id], o)
    /\ UNCHANGED uuidNext

MoviePaths == {"/api/movies", "/api/movies/u1"}

\* An OPTIONS request: no route is registered for the method, so the chain
\* behind the middleware is gin's 404.
OptionsMovies ==
    /\ Accepting
    /\ \E path \in MoviePaths :
         Serve([op |-> "options", path |-> path], Outcome(NoRoute, <<>>, esIndex, esVisible))
    /\ UNCHANGED uuidNext

\* The index's own periodic refresh (taken between two requests: a request
\* is handled in one step).
EsRefresh ==
    /\ sreq = NoRequest
    /\ esVisible # esIndex
    /\ esVisible' = esIndex
    /\ UNCHANGED <<esIndex, esExists, uuidNext, phase, sreq, esCalls, sresp>>
    /\ UNCHANGED <<convertVars, travelVars>>

\* The response has been delivered: the request is over.
SearchDone ==
    /\ sreq # NoRequest
    /\ phase # "crashed"
    /\ sreq' = NoRequest
    /\ sresp' = NoResponse
    /\ esCalls' = <<>>
    /\ UNCHANGED <<esIndex, esVisible, esExists, uuidNext, phase>>
    /\ UNCHANGED <<convertVars, travelVars>>

\* Another client of the index stores a document of its own: its _source holds
\* an id that is not its document id, lacks fields and has a rating that is no
\* number.
ExternalId == "zz"

ExternalSource ==
    [k \in {"id", "title", "rating"} |->
        CASE k = "id" -> JStr("u1")
          [] k = "title" -> JStr("Alien")
          [] k = "rating" -> JStr("high")]

ExternalIndex ==
    /\ Accepting
    /\ ExternalId \notin DOMAIN esIndex
    /\ esIndex' = Put(esIndex, ExternalId, ExternalSource)
    /\ UNCHANGED <<esVisible, esExists, uuidNext, phase, sreq, esCalls, sresp>>
    /\ UNCHANGED <<convertVars, travelVars>>

(***************************************************************************)
(* The services at rest.                                                   *)
(***************************************************************************)
\* No response of the converter yet: a ResponseWriter nothing was written to.
NoReply == [status |-> 0, headers |-> {}, body |-> NoBody]

convertIdle ==
    /\ creq = NoRequest
    /\ cfetch = <<>>
    /\ cresp = NoReply

EmptyTable == [id \in {} |-> NoRequest]

\* The clients whose requests are followed statement by statement.
Clients == {"a", "b"}

travelIdle ==
    /\ countries = EmptyTable
    /\ places = EmptyTable
    /\ countrySeq = 0
    /\ placeSeq = 0
    /\ treq = NoRequest
    /\ tsql = <<>>
    /\ tresp = NoResponse
    /\ tclients = [c \in Clients |-> NoRequest]

(***************************************************************************)
(* Specifications.                                                         *)
(***************************************************************************)
Init == searchIdle /\ convertIdle /\ travelIdle

NextSearch ==
    \/ Bootstrap
    \/ SearchMovies
    \/ GetMovie
    \/ CreateMovie
    \/ UpdateMovie
    \/ DeleteMovie
    \/ EsRefresh
    \/ SearchDone

SpecSearch == Init /\ [][NextSearch]_vars

\* The movie service beside another writer of the same index.
NextSearchExt ==
    \/ Bootstrap
    \/ SearchMovies
    \/ GetMovie
    \/ CreateMovie
    \/ UpdateMovie
    \/ DeleteMovie
    \/ EsRefresh
    \/ SearchDone
    \/ ExternalIndex

SpecSearchExt == Init /\ [][NextSearchExt]_vars

(***************************************************************************)
(* Properties of the movie search service.                                 *)
(***************************************************************************)
Searched == sreq.op = "search"
SearchCall == esCalls[1]
SearchOK == Searched /\ sresp.status = StatusOK

\* The integer a query parameter stands for, if it stands for one.
RequestedInt(text) == ParseInt(text)

\* The page size a request asks for when that is an integer in 1..50, and 5
\* for every other text (missing, not an integer, <= 0, > 50).
RequestedPageSize(text) ==
    LET n == RequestedInt(text)
    IN  IF n.ok /\ I64Less(I64(0), n.val) /\ ~I64Less(I64(MaxPageSize), n.val)
        THEN I64ToInt(n.val) ELSE DefaultPageSize

\* C4: every search sends exactly one search call whose size is the requested
\* pageSize when that is an integer in 1..50 and 5 otherwise; a 200 echoes the
\* same value in pagination.page_size; and no pageSize is refused: the answer
\* is a 200 unless the index call itself failed.
C4_PageSize ==
    Searched =>
        /\ Len(esCalls) = 1
        /\ SearchCall.api = "search"
        /\ SearchCall.body.size = RequestedPageSize(sreq.pageSize)
        /\ sresp.status \in {StatusOK, StatusInternalServerError}
        /\ sresp.status = StatusOK <=> SearchCall.result = "none"
        /\ sresp.status = StatusOK =>
              sresp.body.pagination.page_size = RequestedPageSize(sreq.pageSize)

\* C4 witness: pageSize=51 is answered 200 with page_size 5.
C4_Witness ==
    /\ SearchOK
    /\ sreq.pageSize = <<"5", "1">>
    /\ SearchCall.body.size = DefaultPageSize
    /\ sresp.body.pagination.page_size = DefaultPageSize

\* The page a request asks for, clamped: 1 for a page below 1, a missing page
\* or a text that is no integer.
RequestedPage(text) ==
    LET n == RequestedInt(text)
    IN  IF n.ok /\ I64Less(I64(0), n.val) THEN n.val ELSE I64(1)

\* (page - 1) * pageSize for page >= 1 and pageSize in 1..50 equals the 64-bit
\* word w iff the product fits: no carry out of 64 bits and the sign bit clear.
IsProduct(w, page, pageSize) ==
    LET exact == MulAddLimbs(I64Dec(page), pageSize, 0)
    IN  exact.carry = 0 /\ ~I64IsNeg(exact.limbs) /\ w = exact.limbs

\* C5: the offset sent to the index is (page - 1) * pageSize for the clamped
\* page and the effective page size, and a 200 echoes the clamped page.
C5_Offset ==
    Searched =>
        /\ IsProduct(SearchCall.body.from, RequestedPage(sreq.page),
                     RequestedPageSize(sreq.pageSize))
        /\ sresp.status = StatusOK =>
              sresp.body.pagination.page = RequestedPage(sreq.page)

\* C5, where it fails: page=9223372036854775807 with pageSize=50 sends the
\* offset -100, which the index refuses.
C5_Overflow ==
    /\ Searched
    /\ sreq.page = MaxInt64Text
    /\ sreq.pageSize = <<"5", "0">>
    /\ SearchCall.body.from = I64(-100)
    /\ sresp.status = StatusInternalServerError

\* C5, where it holds: a page below 1 is clamped.
C5_Clamped ==
    /\ SearchOK
    /\ sreq.page = <<"-", "1">>
    /\ SearchCall.body.from = I64(0)
    /\ sresp.body.pagination.page = I64(1)

\* The documents a search for q finds: those the last refresh made visible
\* and that answer the query.
Found == EsHitIds(esVisible, SearchQuery(sreq.q))

\* C6: a successful search reports total_hits as the number of documents found
\* and total_pages as the least number of pages of page_size that holds them:
\* ceil(total_hits / page_size), which is 0 for no hit; five documents with
\* q empty, page 1 and pageSize=5 come back all five on the one page.
C6_TotalPages ==
    SearchOK =>
        LET p == sresp.body.pagination
        IN  /\ p.total_hits = Cardinality(Found)
            /\ p.page_size \in 1..MaxPageSize
            /\ p.total_pages >= 0
            /\ p.total_pages * p.page_size >= p.total_hits
            /\ (p.total_pages - 1) * p.page_size < p.total_hits
            /\ p.total_hits = 0 => p.total_pages = 0
            /\ (/\ sreq.q = ""
                /\ RequestedPage(sreq.page) = I64(1)
                /\ p.page_size = 5
                /\ Cardinality(DOMAIN esVisible) = 5)
               => /\ p.total_pages = 1
                  /\ Len(sresp.body.movies) = 5
                  /\ {sresp.body.movies[i].id : i \in 1..5} = DOMAIN esVisible

\* C6 witness: the scenario of five records, q empty, page 1, pageSize=5.
C6_Witness ==
    /\ SearchOK
    /\ sreq.q = ""
    /\ sreq.page = <<>>
    /\ sreq.pageSize = <<"5">>
    /\ Cardinality(DOMAIN esVisible) = 5
    /\ sresp.body.pagination.total_hits = 5
    /\ sresp.body.pagination.total_pages = 1
    /\ Len(sresp.body.movies) = 5

\* C6 witness of a remainder: pageSize=2 over five hits gives three pages.
C6_Remainder ==
    /\ SearchOK
    /\ sresp.body.pagination.page_size = 2
    /\ sresp.body.pagination.total_hits = 5
    /\ sresp.body.pagination.total_pages = 3

\* C6 witness of no hit.
C6_NoHit ==
    /\ SearchOK
    /\ sresp.body.pagination.total_hits = 0
    /\ sresp.body.pagination.total_pages = 0

\* C7: the query sent to the index is match_all exactly when q is empty (an
\* absent q reads as the empty text); for every other q it is a multi_match
\* of q over title, description and genre, each once, with the boost of title
\* above the boosts of the other two.
C7_Query ==
    Searched =>
        LET query == SearchCall.body.query
            boost(name) ==
                CHOOSE b \in {query.fields[i].boost : i \in 1..Len(query.fields)} :
                    \E i \in 1..Len(query.fields) :
                        query.fields[i] = [name |-> name, boost |-> b]
        IN  /\ query.kind \in {"match_all", "multi_match"}
            /\ query.kind = "match_all" <=> sreq.q = ""
            /\ query.kind = "multi_match" =>
                  /\ query.query = sreq.q
                  /\ Len(query.fields) = 3
                  /\ {query.fields[i].name : i \in 1..3} = {"title", "description", "genre"}
                  /\ boost("title") > boost("description")
                  /\ boost("title") > boost("genre")

\* C7 witness: a search with a non-empty q that sent a multi_match.
C7_Witness ==
    /\ Searched
    /\ sreq.q = "Sci-Fi"
    /\ SearchCall.body.query.kind = "multi_match"
    /\ SearchCall.result = "none"

\* C7 witness of the other side: an empty q sent match_all.
C7_MatchAll ==
    /\ Searched
    /\ sreq.q = ""
    /\ SearchCall.body.query.kind = "match_all"

\* C8: every movie a search returns carries the id of a searchable document
\* and the fields of that very document, no two movies the same id, and a
\* movie fetched by id carries the id it was asked for; whatever id the stored
\* fields hold.
C8_ExternalId ==
    /\ SearchOK =>
          LET movies == sresp.body.movies
          IN  /\ \A i \in 1..Len(movies) :
                    /\ movies[i].id \in Found
                    /\ movies[i] = [mapToMovie(esVisible[movies[i].id]) EXCEPT !.id = movies[i].id]
              /\ \A i, j \in 1..Len(movies) : movies[i].id = movies[j].id => i = j
    /\ (sreq.op = "get" /\ sresp.status = StatusOK) =>
          /\ sreq.id \in DOMAIN esIndex
          /\ sresp.body.movie = [mapToMovie(esIndex[sreq.id]) EXCEPT !.id = sreq.id]

\* Whether a stored document holds an id field that differs from its own id.
ForeignId(index, id) ==
    /\ id \in DOMAIN index
    /\ "id" \in DOMAIN index[id]
    /\ index[id]["id"] # JStr(id)

\* C8 witness: a search returned a document whose stored fields hold another
\* id, under its document id.
C8_Witness ==
    /\ SearchOK
    /\ \E i \in 1..Len(sresp.body.movies) :
          /\ sresp.body.movies[i].id = ExternalId
          /\ ForeignId(esVisible, ExternalId)

\* C8 witness for GET /api/movies/:id.
C8_GetWitness ==
    /\ sreq.op = "get"
    /\ sresp.status = StatusOK
    /\ sresp.body.movie.id = ExternalId
    /\ ForeignId(esIndex, ExternalId)

(***************************************************************************)
(* The currency converter.                                                 *)
(*                                                                         *)
(* A float64 is [kind |-> "num", v |-> hundredths] for a finite value, or  *)
(* [kind |-> "inf", neg |-> BOOLEAN], or [kind |-> "nan"].  The amounts    *)
(* and prices the model is driven with are exact in hundredths, and so are *)
(* their products.                                                         *)
(***************************************************************************)
FNum(v) == [kind |-> "num", v |-> v]
FInf(neg) == [kind |-> "inf", neg |-> neg]
FNaN == [kind |-> "nan"]

FIsNeg(a) == IF a.kind = "num" THEN a.v < 0 ELSE IF a.kind = "inf" THEN a.neg ELSE FALSE

\* a * b in float64.
FMul(a, b) ==
    IF a.kind = "nan" \/ b.kind = "nan" THEN FNaN
    ELSE IF a.kind = "num" /\ b.kind = "num" THEN FNum((a.v * b.v) \div (10 ^ 2))
    ELSE IF (a.kind = "num" /\ a.v = 0) \/ (b.kind = "num" /\ b.v = 0) THEN FNaN
    ELSE FInf(FIsNeg(a) # FIsNeg(b))

\* The value of the digits s[a..b].
RECURSIVE DecVal(_, _, _)
DecVal(s, a, b) ==
    IF b < a THEN 0 ELSE DecVal(s, a, b - 1) * 10 + DigitVal(s[b])

TextInf == <<"I", "N", "F">>
TextInfinity == <<"I", "N", "F", "I", "N", "I", "T", "Y">>
TextNaN == <<"N", "A", "N">>

\* The largest decimal exponent of a float64.
MaxExp10 == 308

\* The scan of a decimal number: where it is ("int" in the digits before the
\* point, "frac" after the point, "e" after the exponent mark, "esign" after
\* the exponent's sign, "exp" in the exponent's digits, "bad" after a
\* character that cannot follow), the mantissa's digits as an integer, how
\* many digits it has before and after the point, and the exponent.
ScanStart ==
    [at |-> "int", mant |-> 0, intDigits |-> 0, fracDigits |-> 0, exp |-> 0, expNeg |-> FALSE]

ScanChar(st, c) ==
    LET digits == st.intDigits + st.fracDigits
    IN  IF st.at = "int" /\ IsDigit(c)
        THEN [st EXCEPT !.mant = @ * 10 + DigitVal(c), !.intDigits = @ + 1]
        ELSE IF st.at = "int" /\ c = "." THEN [st EXCEPT !.at = "frac"]
        ELSE IF st.at = "frac" /\ IsDigit(c)
        THEN [st EXCEPT !.mant = @ * 10 + DigitVal(c), !.fracDigits = @ + 1]
        ELSE IF st.at \in {"int", "frac"} /\ c \in {"e", "E"} /\ digits > 0
        THEN [st EXCEPT !.at = "e"]
        ELSE IF st.at = "e" /\ c \in {"+", "-"}
        THEN [st EXCEPT !.at = "esign", !.expNeg = (c = "-")]
        ELSE IF st.at \in {"e", "esign", "exp"} /\ IsDigit(c)
        THEN [st EXCEPT !.at = "exp",
                        !.exp = IF @ > MaxExp10 THEN @ ELSE @ * 10 + DigitVal(c)]
        ELSE [st EXCEPT !.at = "bad"]

RECURSIVE ScanFloat(_, _, _)
ScanFloat(s, i, st) ==
    IF i > Len(s) THEN st ELSE ScanFloat(s, i + 1, ScanChar(st, s[i]))

\* The value a finished scan stands for, in hundredths.
ScanValue(st) ==
    LET exp10 == (IF st.expNeg THEN 0 - st.exp ELSE st.exp) - st.fracDigits + 2
    IN  IF exp10 >= 0 THEN st.mant * (10 ^ exp10) ELSE st.mant \div (10 ^ (0 - exp10))

\* strconv.ParseFloat(s, 64) on decimal texts: [sign] digits [. digits]
\* [e [sign] digits], or [sign] inf | infinity, or nan, in any case.  err is
\* TRUE for a syntax error and for a value out of range.  Hexadecimal
\* mantissas and digit separators are not among the texts of the model.
ParseFloat(s) ==
    LET signed == s # <<>> /\ Head(s) \in {"+", "-"}
        neg == s # <<>> /\ Head(s) = "-"
        t == IF signed THEN Tail(s) ELSE s
        st == ScanFloat(t, 1, ScanStart)
    IN  IF ToUpper(t) \in {TextInf, TextInfinity} THEN [err |-> FALSE, val |-> FInf(neg)]
        ELSE IF ToUpper(s) = TextNaN THEN [err |-> FALSE, val |-> FNaN]
        ELSE IF st.at \notin {"int", "frac", "exp"} \/ st.intDigits + st.fracDigits = 0
        THEN [err |-> TRUE, val |-> FNum(0)]
        ELSE IF st.mant # 0 /\ ~st.expNeg /\ st.exp + st.intDigits > MaxExp10 + 1
        THEN [err |-> TRUE, val |-> FInf(neg)]
        ELSE [err |-> FALSE, val |-> FNum(IF neg THEN 0 - ScanValue(st) ELSE ScanValue(st))]

\* A query parameter: absent from the URL, or present with a text.
NoParam == [present |-> FALSE, text |-> <<>>]
Param(text) == [present |-> TRUE, text |-> text]

\* r.URL.Query().Get(name): the empty text for an absent parameter.
QueryGet(p) == IF p.present THEN p.text ELSE <<>>

\* Responses of the converter: status, headers (a set of <<name, value>>) and
\* body.  A status of 0 stands for a WriteHeader that was never called.
JsonBody(value) == [kind |-> "json", value |-> value]
Reply(status, headers, body) == [status |-> status, headers |-> headers, body |-> body]

\* A variant of http.Error that answers 400 whatever code it is given.
HttpErrorBadRequest(msg, code) ==
    Reply(StatusBadRequest,
          {<<"Content-Type", "text/plain; charset=utf-8">>,
           <<"X-Content-Type-Options", "nosniff">>},
          TextBody(msg))

\* http.Error(w, msg, code)
HttpError(msg, code) ==
    Reply(code,
          {<<"Content-Type", "text/plain; charset=utf-8">>,
           <<"X-Content-Type-Options", "nosniff">>},
          TextBody(msg))

\* What the finance API may answer to one request.
ChartError == [kind |-> "chart", error |-> TRUE, results |-> <<>>]
ChartResults(prices) == [kind |-> "chart", error |-> FALSE, results |-> prices]
UpstreamFailure == [kind |-> "transport"]
Upstream(status, payload) == [kind |-> "http", status |-> status, payload |-> payload]
NotJSON == [kind |-> "garbage"]

\* A variant of the price check that takes every price.
PriceIsZeroNever(price) == FALSE

\* price == 0: true of a price of 0 and of a regularMarketPrice member that
\* is missing, which decodes to 0.
PriceIsZero(price) == price = FNum(0)

\* fetchRate(base, target): the price of the first result, or an error (err
\* is "" for the Go nil).  The record keeps what the function was called with
\* and what the finance API answered.
fetchRate(base, target, upstream) ==
    LET symbol == base \o target \o <<"=", "X">>
        call == [base |-> base, target |-> target, symbol |-> symbol]
        fail(msg) == [rate |-> FNum(0), err |-> msg, call |-> call, upstream |-> upstream]
    IN  IF upstream.kind = "transport" THEN fail("transport")
        ELSE IF upstream.status # StatusOK THEN fail("unexpected status code")
        ELSE IF upstream.payload.kind # "chart" THEN fail("decode")
        ELSE IF upstream.payload.error THEN fail("chart api returned an error")
        ELSE IF Len(upstream.payload.results) = 0 THEN fail("chart api returned no results")
        ELSE LET price == upstream.payload.results[1]
             IN  IF PriceIsZero(price) THEN fail("received zero price from api")
                 ELSE [rate |-> price, err |-> "", call |-> call, upstream |-> upstream]

\* json.NewEncoder(w).Encode(resp): a float that is no finite number cannot
\* be encoded, and then nothing is written.
Encodable(resp) ==
    resp.amount.kind = "num" /\ resp.rate.kind = "num" /\ resp.converted.kind = "num"

\* What a handler did: the response it wrote and its calls to rateFetcher.
Handled(resp, fetches) == [resp |-> resp, fetches |-> fetches]

\* A variant of the message for a failed fetch that passes the error on.
FetchFailedMessageLeaking(err) == err

\* The message convertHandler writes when rateFetcher returned err: the
\* error goes to the log, not to the client.
FetchFailedMessage(err) == "failed to fetch rate"

\* A variant of the method check that lets POST through as well.
MethodAllowedOrPost(method) == method \in {"GET", "POST"}

\* r.Method != http.MethodGet, negated.
MethodAllowed(method) == method = "GET"

\* A variant of the check of base and target that asks for one of them only.
CodesMissingBoth(base, target) == base = <<>> /\ target = <<>>

\* base == "" || target == ""
CodesMissing(base, target) == base = <<>> \/ target = <<>>

convertHandler(r, upstream) ==
    IF ~MethodAllowed(r.method)
    THEN Handled(HttpError("method not allowed", StatusMethodNotAllowed), <<>>)
    ELSE LET base == ToUpper(QueryGet(r.base))
             target == ToUpper(QueryGet(r.target))
             amountStr == QueryGet(r.amount)
             parsed == ParseFloat(amountStr)
             amount == IF amountStr # <<>> THEN parsed.val ELSE FNum(10 ^ 2)
             f == fetchRate(base, target, upstream)
             resp == [base |-> base, target |-> target, amount |-> amount, rate |-> f.rate,
                      converted |-> FMul(f.rate, amount), source |-> "yahoo-finance"]
         IN  IF CodesMissing(base, target)
             THEN Handled(HttpError("base and target query parameters are required",
                                    StatusBadRequest), <<>>)
             ELSE IF amountStr # <<>> /\ parsed.err
             THEN Handled(HttpError("amount must be a number", StatusBadRequest), <<>>)
             ELSE IF f.err # ""
             THEN Handled(HttpError(FetchFailedMessage(f.err), StatusBadGateway), <<f>>)
             ELSE IF Encodable(resp)
             THEN Handled(Reply(StatusOK, {<<"Content-Type", "application/json">>},
                                JsonBody(resp)), <<f>>)
             ELSE Handled(Reply(StatusOK, {<<"Content-Type", "application/json">>}, NoBody),
                          <<f>>)

\* The routes of main's ServeMux.
serveMux(r, upstream) ==
    IF r.path = "/api/convert" THEN convertHandler(r, upstream)
    ELSE IF r.path = "/healthz" THEN Handled(Reply(StatusOK, {}, TextBody("ok")), <<>>)
    ELSE Handled(HttpError("404 page not found", StatusNotFound), <<>>)

CorsHeaders ==
    {<<"Access-Control-Allow-Origin", "*">>,
     <<"Access-Control-Allow-Methods", "GET, OPTIONS">>,
     <<"Access-Control-Allow-Headers", "Content-Type">>}

\* withCORS(mux)
withCORS(r, upstream) ==
    IF r.method = "OPTIONS"
    THEN Handled(Reply(StatusNoContent, CorsHeaders, NoBody), <<>>)
    ELSE LET h == serveMux(r, upstream)
         IN  Handled([h.resp EXCEPT !.headers = @ \cup CorsHeaders], h.fetches)

(***************************************************************************)
(* The requests the converter is driven with.                              *)
(***************************************************************************)
Methods == {"GET", "POST", "DELETE", "OPTIONS"}

Paths == {"/api/convert", "/healthz", "/favicon.ico"}

CodeParams == {NoParam, Param(<<>>), Param(<<"u", "s", "d">>), Param(<<"E", "U", "R">>)}

AmountParams ==
    { NoParam, Param(<<>>), Param(<<"2">>), Param(<<"1", ".", "5">>), Param(<<"-", "1">>),
      Param(<<"a", "b", "c">>), Param(<<"1", "2", "x">>), Param(<<"1", "e", "9", "9", "9">>),
      Param(<<"N", "a", "N">>), Param(<<"I", "n", "f">>) }

Upstreams ==
    { UpstreamFailure,
      Upstream(StatusInternalServerError, NotJSON),
      Upstream(StatusNotFound, ChartError),
      Upstream(StatusOK, NotJSON),
      Upstream(StatusOK, ChartError),
      Upstream(StatusOK, ChartResults(<<>>)),
      Upstream(StatusOK, ChartResults(<<FNum(0)>>)),
      Upstream(StatusOK, ChartResults(<<FNum(110)>>)),
      Upstream(StatusOK, ChartResults(<<FNum(50), FNum(0)>>)) }

ConvertRequest(entry, method, path, base, target, amount) ==
    [op |-> "convert", entry |-> entry, method |-> method, path |-> path,
     base |-> base, target |-> target, amount |-> amount]

Answer(request, out) ==
    /\ creq' = request
    /\ cresp' = out.resp
    /\ cfetch' = out.fetches
    /\ UNCHANGED <<searchVars, travelVars>>

\* convertHandler called with a request, as the tests call it.
ConvertDirect ==
    /\ creq = NoRequest
    /\ \E method \in Methods, base \in CodeParams, target \in CodeParams,
          amount \in AmountParams, upstream \in Upstreams :
         LET r == ConvertRequest("handler", method, "/api/convert", base, target, amount)
         IN  \E o \in {convertHandler(r, upstream)} : Answer(r, o)

\* A request to the server that main starts: withCORS(mux).
ConvertServe ==
    /\ creq = NoRequest
    /\ \E method \in Methods, path \in Paths, base \in CodeParams, target \in CodeParams,
          amount \in AmountParams, upstream \in Upstreams :
         LET r == ConvertRequest("server", method, path, base, target, amount)
         IN  \E o \in {withCORS(r, upstream)} : Answer(r, o)

\* The response has been delivered: the request is over.
ConvertDone ==
    /\ creq # NoRequest
    /\ creq' = NoRequest
    /\ cresp' = NoReply
    /\ cfetch' = <<>>
    /\ UNCHANGED <<searchVars, travelVars>>

NextConvert ==
    \/ ConvertDirect
    \/ ConvertServe
    \/ ConvertDone

SpecConvert == Init /\ [][NextConvert]_vars

(***************************************************************************)
(* Properties of the converter.                                            *)
(***************************************************************************)
\* The request was handled by convertHandler: called directly, or routed to
\* it by the server.
ConvertHandled ==
    /\ creq.op = "convert"
    /\ \/ creq.entry = "handler"
       \/ creq.entry = "server" /\ creq.path = "/api/convert" /\ creq.method # "OPTIONS"

\* C9: convertHandler answers every request whose method is not GET with 405
\* and the text "method not allowed", whatever base, target and amount are,
\* and makes no call to the rate fetcher.
C9_MethodNotAllowed ==
    (ConvertHandled /\ creq.method # "GET") =>
        /\ cresp.status = StatusMethodNotAllowed
        /\ cresp.body = TextBody("method not allowed")
        /\ cfetch = <<>>

\* C9 witness: a POST with base, target and a valid amount is answered 405.
C9_Witness ==
    /\ ConvertHandled
    /\ creq.method = "POST"
    /\ creq.base = Param(<<"u", "s", "d">>)
    /\ creq.target = Param(<<"E", "U", "R">>)
    /\ creq.amount = Param(<<"2">>)
    /\ cresp.status = StatusMethodNotAllowed
    /\ cfetch = <<>>

\* A text that stands for no number.
NotANumber(text) == ParseFloat(text).err

\* A code that is missing or empty.
NoCode(p) == ~p.present \/ p.text = <<>>

ValidationMessages ==
    {TextBody("base and target query parameters are required"),
     TextBody("amount must be a number")}

\* C10 as stated: a GET is answered 400 with a validation message whenever base
\* or target is missing or empty, or amount is present and stands for no
\* number.
C10_AsStated ==
    (/\ ConvertHandled
     /\ creq.method = "GET"
     /\ \/ NoCode(creq.base)
        \/ NoCode(creq.target)
        \/ creq.amount.present /\ NotANumber(creq.amount.text))
    => /\ cresp.status = StatusBadRequest
       /\ cresp.body \in ValidationMessages

\* C10, amended: a GET is answered 400 with a validation message, and without
\* a call to the rate fetcher, whenever base or target is missing or empty, or
\* amount is a non-empty text that stands for no number; an amount that is
\* present but empty counts as absent.
C10_Validation ==
    (/\ ConvertHandled
     /\ creq.method = "GET"
     /\ \/ NoCode(creq.base)
        \/ NoCode(creq.target)
        \/ creq.amount.text # <<>> /\ NotANumber(creq.amount.text))
    => /\ cresp.status = StatusBadRequest
       /\ cresp.body \in ValidationMessages
       /\ cresp.body = TextBody("amount must be a number")
             <=> (~NoCode(creq.base) /\ ~NoCode(creq.target))
       /\ cfetch = <<>>

\* C10 witness: amount=abc with base and target given is answered 400.
C10_Witness ==
    /\ ConvertHandled
    /\ creq.method = "GET"
    /\ creq.base = Param(<<"u", "s", "d">>)
    /\ creq.target = Param(<<"E", "U", "R">>)
    /\ creq.amount = Param(<<"a", "b", "c">>)
    /\ cresp = HttpError("amount must be a number", StatusBadRequest)

\* C10, where the statement fails: an amount that is present and empty is
\* taken for the default, and the request goes on to the rate fetcher.
C10_EmptyAmount ==
    /\ ConvertHandled
    /\ creq.method = "GET"
    /\ creq.amount = Param(<<>>)
    /\ cresp.status = StatusOK
    /\ cresp.body.kind = "json"
    /\ cresp.body.value.amount = FNum(10 ^ 2)

(***************************************************************************)
(* The travel blog backend.                                                *)
(*                                                                         *)
(* The database is [countries, places, countrySeq, placeSeq]: the two      *)
(* tables as functions from id to row, and the two SERIAL sequences.  A    *)
(* country row is [id, name, description]; a place row is [id, country_id, *)
(* name, category, city, description, visited_at]; texts are sequences of  *)
(* characters, visited_at is SqlNull or a date [y, m, d].  The timestamps  *)
(* created_at and updated_at, which no request can set, are left out.      *)
(***************************************************************************)
SqlNull == [t |-> "null"]

Database(cs, ps, cseq, pseq) ==
    [countries |-> cs, places |-> ps, countrySeq |-> cseq, placeSeq |-> pseq]

\* A JSON member of a request body: absent, null, or a value.
JAbsent == [t |-> "absent"]
JNull == [t |-> "null"]

\* encoding/json into a *string: nil for an absent member and for null.
PtrIsNil(member) == member.t # "string"

\* encoding/json into a string: the zero value for an absent member and null.
GoString(member) == IF member.t = "string" THEN member.v ELSE <<>>

\* c.ShouldBindJSON(&input) where every member of input is a string or a
\* *string: the body is JSON and no member holds a value of another type.
BindStrings(body) ==
    body.ok /\ \A f \in DOMAIN body.members : body.members[f].t # "number"

\* The days of month m of year y.
DaysIn(y, m) ==
    IF m = 2
    THEN (IF (y % 4 = 0 /\ y % 100 # 0) \/ y % 400 = 0 THEN 29 ELSE 28)
    ELSE IF m \in {4, 6, 9, 11} THEN 30 ELSE 31

\* time.Parse("2006-01-02", s): four digits, two digits and two digits with
\* "-" between them, that name a day of the calendar.
ParseDate(s) ==
    LET shaped == /\ Len(s) = 10
                  /\ s[5] = "-" /\ s[8] = "-"
                  /\ \A i \in {1, 2, 3, 4, 6, 7, 9, 10} : IsDigit(s[i])
        y == DecVal(s, 1, 4)
        m == DecVal(s, 6, 7)
        d == DecVal(s, 9, 10)
    IN  IF shaped /\ m \in 1..12 /\ d \in 1..DaysIn(y, m)
        THEN [err |-> FALSE, val |-> [y |-> y, m |-> m, d |-> d]]
        ELSE [err |-> TRUE, val |-> SqlNull]

\* One statement sent to the database, and whether it came back with an error.
Stmt(sql, err) == [sql |-> sql, err |-> err]

\* A text parameter of a statement: a Go interface{} that is nil (SQL NULL) or
\* holds a string.
NilParam == [nil |-> TRUE]
TextParam(text) == [nil |-> FALSE, v |-> text]

\* A variant of COALESCE that writes the empty text for a NULL parameter.
CoalesceEmpty(param, column) == IF param.nil THEN <<>> ELSE param.v

\* COALESCE(param, column)
Coalesce(param, column) == IF param.nil THEN column ELSE param.v

\* A variant of CASE WHEN that never takes the THEN branch.
CaseWhenNever(cond, value, column) == column

\* CASE WHEN cond THEN value ELSE column END
CaseWhen(cond, value, column) == IF cond THEN value ELSE column

\* SELECT ... FROM places WHERE country_id=$1: the rows, as a set (their
\* order in the response is left out).
fetchPlaces(db, countryID) ==
    {db.places[p] : p \in {q \in DOMAIN db.places : db.places[q].country_id = countryID}}

\* fetchCountry(id): its two SELECTs, the k-th of which fails when failAt = k.
\* country is NoCountry for sql.ErrNoRows (the Go nil, with a nil error).
NoCountry == [id |-> 0]

\* A variant of fetchCountry that sends its first SELECT again when it fails.
fetchCountryRetrying(db, id, failAt) ==
    LET again == IF failAt = 1 THEN <<Stmt("SELECT countries", TRUE)>> ELSE <<>>
    IN  IF id \notin DOMAIN db.countries
        THEN [err |-> FALSE, country |-> NoCountry,
              stmts |-> again \o <<Stmt("SELECT countries", FALSE)>>]
        ELSE IF failAt = 2
        THEN [err |-> TRUE, country |-> NoCountry,
              stmts |-> again \o <<Stmt("SELECT countries", FALSE), Stmt("SELECT places", TRUE)>>]
        ELSE [err |-> FALSE,
              country |-> [id |-> id, name |-> db.countries[id].name,
                           description |-> db.countries[id].description,
                           places |-> fetchPlaces(db, id)],
              stmts |-> again \o <<Stmt("SELECT countries", FALSE), Stmt("SELECT places", FALSE)>>]

fetchCountry(db, id, failAt) ==
    IF failAt = 1
    THEN [err |-> TRUE, country |-> NoCountry, stmts |-> <<Stmt("SELECT countries", TRUE)>>]
    ELSE IF id \notin DOMAIN db.countries
    THEN [err |-> FALSE, country |-> NoCountry, stmts |-> <<Stmt("SELECT countries", FALSE)>>]
    ELSE IF failAt = 2
    THEN [err |-> TRUE, country |-> NoCountry,
          stmts |-> <<Stmt("SELECT countries", FALSE), Stmt("SELECT places", TRUE)>>]
    ELSE [err |-> FALSE,
          country |-> [id |-> id, name |-> db.countries[id].name,
                       description |-> db.countries[id].description,
                       places |-> fetchPlaces(db, id)],
          stmts |-> <<Stmt("SELECT countries", FALSE), Stmt("SELECT places", FALSE)>>]

\* c.JSON(status, country): a nil *Country is written as null.
CountryBody(country) ==
    IF country = NoCountry THEN [kind |-> "null"] ELSE [kind |-> "country", country |-> country]

\* What a handler did: the response it wrote, the statements it sent, and the
\* database it leaves.
Done(resp, stmts, db) == [resp |-> resp, stmts |-> stmts, db |-> db]

\* A parseIDParam that lets every text through (as id 0).
parseIDParamLenient(text) == [err |-> FALSE, id |-> ParseInt(text).val]

\* parseIDParam(c, "id")
parseIDParam(text) ==
    LET p == ParseInt(text)
    IN  [err |-> ~p.ok, id |-> p.val]

\* Whether an id fits the INTEGER columns (32 bits); a statement that is
\* given one that does not comes back with an error.
FitsInteger(w) ==
    \/ w[3] = 0 /\ w[4] = 0 /\ w[2] < LimbHalf
    \/ w[3] = LimbBase - 1 /\ w[4] = LimbBase - 1 /\ w[2] >= LimbHalf

\* The statement of a handler that fails, if any: the first one when the id
\* does not fit, else the one the database is chosen to fail at (0: none).
FailingStmt(id, failAt) == IF FitsInteger(id) THEN failAt ELSE 1

\* The tail of createCountry, updateCountry, createPlace, updatePlace and
\* deletePlace: fetch the country and write it with the status of success.
RespondCountry(status, db, countryID, before, failAt) ==
    LET f == fetchCountry(db, countryID, failAt)
    IN  IF f.err
        THEN Done(Response(StatusInternalServerError, ErrorBody("database")), before \o f.stmts, db)
        ELSE Done(Response(status, CountryBody(f.country)), before \o f.stmts, db)

DatabaseError == Response(StatusInternalServerError, ErrorBody("database"))

createCountry(db, body, failAt) ==
    LET name == TrimSpace(GoString(body.members["name"]))
        description == TrimSpace(GoString(body.members["description"]))
        id == db.countrySeq + 1
        inserted == [db EXCEPT !.countrySeq = id,
                               !.countries = Put(@, id, [id |-> id, name |-> name,
                                                         description |-> description])]
    IN  IF ~BindStrings(body) \/ GoString(body.members["name"]) = <<>>
        THEN Done(Response(StatusBadRequest, ErrorBody("bind")), <<>>, db)
        ELSE IF name = <<>>
        THEN Done(Response(StatusBadRequest, ErrorBody("name cannot be empty")), <<>>, db)
        ELSE IF failAt = 1
        THEN Done(DatabaseError, <<Stmt("INSERT countries", TRUE)>>, db)
        ELSE RespondCountry(StatusCreated, inserted, id,
                            <<Stmt("INSERT countries", FALSE)>>, failAt - 1)

getCountry(db, idText, failAt) ==
    LET p == parseIDParam(idText)
        f == fetchCountry(db, I64ToInt(p.id), FailingStmt(p.id, failAt))
    IN  IF p.err THEN Done(Response(StatusBadRequest, ErrorBody("id")), <<>>, db)
        ELSE IF f.err THEN Done(DatabaseError, f.stmts, db)
        ELSE IF f.country = NoCountry
        THEN Done(Response(StatusNotFound, ErrorBody("country not found")), f.stmts, db)
        ELSE Done(Response(StatusOK, CountryBody(f.country)), f.stmts, db)

\* UPDATE countries SET name = COALESCE($1, name),
\*     description = COALESCE($2, description) WHERE id=$3
UpdateCountries(cs, name, description, id) ==
    [k \in DOMAIN cs |->
        IF k = id
        THEN [cs[k] EXCEPT !.name = Coalesce(name, @),
                           !.description = Coalesce(description, @)]
        ELSE cs[k]]

updateCountry(db, idText, body, failAt) ==
    LET p == parseIDParam(idText)
        id == I64ToInt(p.id)
        fail == FailingStmt(p.id, failAt)
        input == body.members
        name == IF PtrIsNil(input["name"]) THEN NilParam
                ELSE TextParam(TrimSpace(input["name"].v))
        description == IF PtrIsNil(input["description"]) THEN NilParam
                       ELSE TextParam(TrimSpace(input["description"].v))
        updated == [db EXCEPT !.countries = UpdateCountries(@, name, description, id)]
    IN  IF p.err THEN Done(Response(StatusBadRequest, ErrorBody("id")), <<>>, db)
        ELSE IF ~BindStrings(body)
        THEN Done(Response(StatusBadRequest, ErrorBody("bind")), <<>>, db)
        ELSE IF fail = 1 THEN Done(DatabaseError, <<Stmt("UPDATE countries", TRUE)>>, db)
        ELSE IF id \notin DOMAIN db.countries
        THEN Done(Response(StatusNotFound, ErrorBody("country not found")),
                  <<Stmt("UPDATE countries", FALSE)>>, db)
        ELSE RespondCountry(StatusOK, updated, id, <<Stmt("UPDATE countries", FALSE)>>, fail - 1)

\* The DELETE without ON DELETE CASCADE taking the places along.
DeleteCountriesNoCascade(db, id) == [db EXCEPT !.countries = Remove(@, id)]

\* DELETE FROM countries WHERE id=$1, with places.country_id ON DELETE CASCADE.
DeleteCountries(db, id) ==
    [db EXCEPT !.countries = Remove(@, id),
               !.places = [k \in {q \in DOMAIN @ : @[q].country_id # id} |-> @[k]]]

deleteCountry(db, idText, failAt) ==
    LET p == parseIDParam(idText)
        id == I64ToInt(p.id)
    IN  IF p.err THEN Done(Response(StatusBadRequest, ErrorBody("id")), <<>>, db)
        ELSE IF FailingStmt(p.id, failAt) = 1
        THEN Done(DatabaseError, <<Stmt("DELETE countries", TRUE)>>, db)
        ELSE IF id \notin DOMAIN db.countries
        THEN Done(Response(StatusNotFound, ErrorBody("country not found")),
                  <<Stmt("DELETE countries", FALSE)>>, db)
        ELSE Done(Response(StatusNoContent, NoBody), <<Stmt("DELETE countries", FALSE)>>,
                  DeleteCountries(db, id))

createPlace(db, idText, body, failAt) ==
    LET p == parseIDParam(idText)
        countryID == I64ToInt(p.id)
        fail == FailingStmt(p.id, failAt)
        input == body.members
        name == TrimSpace(GoString(input["name"]))
        category == TrimSpace(GoString(input["category"]))
        city == TrimSpace(GoString(input["city"]))
        description == TrimSpace(GoString(input["description"]))
        dated == ~PtrIsNil(input["visited_at"]) /\ input["visited_at"].v # <<>>
        date == ParseDate(input["visited_at"].v)
        visitedAt == IF dated THEN date.val ELSE SqlNull
        id == db.placeSeq + 1
        row == [id |-> id, country_id |-> countryID, name |-> name, category |-> category,
                city |-> city, description |-> description, visited_at |-> visitedAt]
        inserted == [db EXCEPT !.placeSeq = id, !.places = Put(@, id, row)]
    IN  IF p.err THEN Done(Response(StatusBadRequest, ErrorBody("id")), <<>>, db)
        ELSE IF \/ ~BindStrings(body)
                \/ GoString(input["name"]) = <<>>
                \/ GoString(input["category"]) = <<>>
        THEN Done(Response(StatusBadRequest, ErrorBody("bind")), <<>>, db)
        ELSE IF name = <<>> \/ category = <<>>
        THEN Done(Response(StatusBadRequest, ErrorBody("name and category are required")),
                  <<>>, db)
        ELSE IF dated /\ date.err
        THEN Done(Response(StatusBadRequest,
                           ErrorBody("invalid visited_at format, expected YYYY-MM-DD")),
                  <<>>, db)
        ELSE IF fail = 1 THEN Done(DatabaseError, <<Stmt("INSERT places", TRUE)>>, db)
        ELSE IF countryID \notin DOMAIN db.countries
        \* The foreign key refuses the row; the sequence value is spent.
        THEN Done(DatabaseError, <<Stmt("INSERT places", TRUE)>>, [db EXCEPT !.placeSeq = id])
        ELSE RespondCountry(StatusCreated, inserted, countryID,
                            <<Stmt("INSERT places", FALSE)>>, fail - 1)

\* UPDATE places SET name = COALESCE($1, name), category = COALESCE($2, category),
\*     city = COALESCE($3, city), description = COALESCE($4, description),
\*     visited_at = CASE WHEN $5 THEN $6 ELSE visited_at END WHERE id=$7
UpdatePlaces(ps, name, category, city, description, setVisited, visitedAt, id) ==
    [k \in DOMAIN ps |->
        IF k = id
        THEN [ps[k] EXCEPT !.name = Coalesce(name, @),
                           !.category = Coalesce(category, @),
                           !.city = Coalesce(city, @),
                           !.description = Coalesce(description, @),
                           !.visited_at = CaseWhen(setVisited, visitedAt, @)]
        ELSE ps[k]]

\* var x interface{}; if input.X != nil { x = strings.TrimSpace(*input.X) }
TrimmedOrNil(member) ==
    IF PtrIsNil(member) THEN NilParam ELSE TextParam(TrimSpace(member.v))

updatePlace(db, idText, body, failAt) ==
    LET p == parseIDParam(idText)
        placeID == I64ToInt(p.id)
        fail == FailingStmt(p.id, failAt)
        input == body.members
        setVisited == ~PtrIsNil(input["visited_at"])
        dated == setVisited /\ input["visited_at"].v # <<>>
        date == ParseDate(input["visited_at"].v)
        visitedAt == IF dated THEN date.val ELSE SqlNull
        updated == [db EXCEPT !.places =
                        UpdatePlaces(@, TrimmedOrNil(input["name"]), TrimmedOrNil(input["category"]),
                                     TrimmedOrNil(input["city"]), TrimmedOrNil(input["description"]),
                                     setVisited, visitedAt, placeID)]
        update == Stmt("UPDATE places", FALSE)
        select == Stmt("SELECT country_id", FALSE)
    IN  IF p.err THEN Done(Response(StatusBadRequest, ErrorBody("id")), <<>>, db)
        ELSE IF ~BindStrings(body)
        THEN Done(Response(StatusBadRequest, ErrorBody("bind")), <<>>, db)
        ELSE IF dated /\ date.err
        THEN Done(Response(StatusBadRequest,
                           ErrorBody("invalid visited_at format, expected YYYY-MM-DD")),
                  <<>>, db)
        ELSE IF fail = 1 THEN Done(DatabaseError, <<Stmt("UPDATE places", TRUE)>>, db)
        ELSE IF placeID \notin DOMAIN db.places
        THEN Done(Response(StatusNotFound, ErrorBody("place not found")), <<update>>, db)
        ELSE IF fail = 2
        THEN Done(DatabaseError, <<update, Stmt("SELECT country_id", TRUE)>>, updated)
        ELSE RespondCountry(StatusOK, updated, updated.places[placeID].country_id,
                            <<update, select>>, fail - 2)

\* A variant of the DELETE that removes no row.
DeletePlacesNone(db, id) == db

\* DELETE FROM places WHERE id=$1
DeletePlaces(db, id) == [db EXCEPT !.places = Remove(@, id)]

deletePlace(db, idText, failAt) ==
    LET p == parseIDParam(idText)
        placeID == I64ToInt(p.id)
        fail == FailingStmt(p.id, failAt)
        select == Stmt("SELECT country_id", FALSE)
        delete == Stmt("DELETE places", FALSE)
    IN  IF p.err THEN Done(Response(StatusBadRequest, ErrorBody("id")), <<>>, db)
        ELSE IF fail = 1 THEN Done(DatabaseError, <<Stmt("SELECT country_id", TRUE)>>, db)
        ELSE IF placeID \notin DOMAIN db.places
        THEN Done(Response(StatusNotFound, ErrorBody("place not found")), <<select>>, db)
        ELSE IF fail = 2
        THEN Done(DatabaseError, <<select, Stmt("DELETE places", TRUE)>>, db)
        ELSE RespondCountry(StatusOK, DeletePlaces(db, placeID),
                            db.places[placeID].country_id, <<select, delete>>, fail - 2)

(***************************************************************************)
(* The requests the travel blog is driven with.                            *)
(***************************************************************************)
MaxCountries == 1
MaxPlaces == 1

\* A request body: JSON with these members, or no JSON at all.
Body(members) == [ok |-> TRUE, members |-> members]
NotJSONBody == [ok |-> FALSE, members |-> <<>>]

CountryMembers(name, description) ==
    [f \in {"name", "description"} |-> IF f = "name" THEN name ELSE description]

PlaceMembers(name, category, city, description, visitedAt) ==
    [f \in {"name", "category", "city", "description", "visited_at"} |->
        CASE f = "name" -> name
          [] f = "category" -> category
          [] f = "city" -> city
          [] f = "description" -> description
          [] f = "visited_at" -> visitedAt]

LeapDay == <<"2", "0", "2", "4", "-", "0", "2", "-", "2", "9">>
NoSuchDay == <<"2", "0", "2", "3", "-", "0", "2", "-", "2", "9">>
Twelfth == <<"2", "0", "2", "5", "-", "1", "1", "-", "1", "2">>

CreateCountryBodies ==
    {Body(CountryMembers(n, JAbsent)) : n \in {JAbsent, JStr(<<"A">>), JStr(<<" ">>)}}

UpdateCountryBodies ==
    {Body(CountryMembers(n, d)) :
        n \in {JAbsent, JNull, JStr(<<" ", "B", " ">>), JStr(<<" ">>), JNum(<<"5">>)},
        d \in {JAbsent, JNull, JStr(<<" ", "e">>)}}
    \cup {NotJSONBody}

CreatePlaceBodies ==
    {Body(PlaceMembers(n, c, JAbsent, JAbsent, v)) :
        n \in {JAbsent, JStr(<<"P">>)},
        c \in {JNull, JStr(<<"c">>), JStr(<<" ">>)},
        v \in {JAbsent, JStr(LeapDay), JStr(NoSuchDay)}}

UpdatePlaceBodies ==
    {Body(PlaceMembers(n, c, t, d, v)) :
        n \in {JAbsent, JNull, JStr(<<" ", "Q", " ">>), JStr(<<" ">>)},
        c \in {JAbsent, JNull, JStr(<<"k">>)},
        t \in {JAbsent, JNull, JStr(<<"y">>)},
        d \in {JAbsent, JNull, JStr(<<"z", " ">>)},
        v \in {JAbsent, JNull, JStr(<<>>), JStr(Twelfth), JStr(NoSuchDay)}}

\* Bodies for the requests that name no row: one valid, one that is no JSON.
StrayBodies ==
    {Body(PlaceMembers(JStr(<<" ", "Q", " ">>), JAbsent, JAbsent, JAbsent, JStr(Twelfth))),
     Body(PlaceMembers(JAbsent, JAbsent, JAbsent, JAbsent, JStr(NoSuchDay))),
     NotJSONBody}

KnownIds == {<<"1">>}
StrayIds == {<<"7">>, <<"x">>}

\* The statement of a request (1..3) the database fails at; 0 for none.
DbFaults == 0..3

DbNow == Database(countries, places, countrySeq, placeSeq)

TravelAccepting == treq = NoRequest

\* The methods of the routes of main.
TravelRoute(op) ==
    CASE op \in {"getCountry"} -> "GET"
      [] op \in {"createCountry", "createPlace"} -> "POST"
      [] op \in {"updateCountry", "updatePlace"} -> "PUT"
      [] op \in {"deleteCountry", "deletePlace"} -> "DELETE"
      [] op = "options" -> "OPTIONS"

TravelCorsHeaders ==
    {<<"Access-Control-Allow-Origin", "*">>,
     <<"Access-Control-Allow-Methods", "GET,POST,PUT,DELETE,OPTIONS">>,
     <<"Access-Control-Allow-Headers", "Origin, Content-Type">>}

\* The middleware of main (router.Use(func(c *gin.Context) {...})): next is
\* what the rest of the chain does when c.Next() runs it.
travelCORS(method, db, next) ==
    IF method = "OPTIONS"
    THEN Done(WithHeaders(Response(StatusNoContent, NoBody), TravelCorsHeaders), <<>>, db)
    ELSE [next EXCEPT !.resp = WithHeaders(@, TravelCorsHeaders)]

\* A request goes through the middleware to its handler, and the outcome
\* becomes the state.
Apply(request, out) ==
    /\ treq' = request
    /\ \E served \in {travelCORS(TravelRoute(request.op), DbNow, out)} :
          /\ tresp' = served.resp
          /\ tsql' = served.stmts
          /\ countries' = served.db.countries
          /\ places' = served.db.places
          /\ countrySeq' = served.db.countrySeq
          /\ placeSeq' = served.db.placeSeq
    /\ UNCHANGED tclients
    /\ UNCHANGED <<searchVars, convertVars>>

CreateCountry ==
    /\ TravelAccepting
    /\ countrySeq < MaxCountries
    /\ \E body \in CreateCountryBodies, failAt \in DbFaults :
         \E o \in {createCountry(DbNow, body, failAt)} :
            Apply([op |-> "createCountry", body |-> body], o)

GetCountry ==
    /\ TravelAccepting
    /\ \E id \in KnownIds \cup StrayIds, failAt \in DbFaults :
         \E o \in {getCountry(DbNow, id, failAt)} :
            Apply([op |-> "getCountry", id |-> id], o)

UpdateCountry ==
    /\ TravelAccepting
    /\ \E id \in KnownIds \cup StrayIds, body \in UpdateCountryBodies, failAt \in DbFaults :
         \E o \in {updateCountry(DbNow, id, body, failAt)} :
            Apply([op |-> "updateCountry", id |-> id, body |-> body], o)

DeleteCountry ==
    /\ TravelAccepting
    /\ \E id \in KnownIds \cup StrayIds, failAt \in DbFaults :
         \E o \in {deleteCountry(DbNow, id, failAt)} :
            Apply([op |-> "deleteCountry", id |-> id], o)

CreatePlace ==
    /\ TravelAccepting
    /\ placeSeq < MaxPlaces
    /\ \E id \in KnownIds \cup StrayIds, body \in CreatePlaceBodies, failAt \in DbFaults :
         \E o \in {createPlace(DbNow, id, body, failAt)} :
            Apply([op |-> "createPlace", id |-> id, body |-> body], o)

UpdatePlace ==
    /\ TravelAccepting
    /\ \E r \in (KnownIds \X UpdatePlaceBodies) \cup (StrayIds \X StrayBodies),
          failAt \in DbFaults :
         \E o \in {updatePlace(DbNow, r[1], r[2], failAt)} :
            Apply([op |-> "updatePlace", id |-> r[1], body |-> r[2]], o)

DeletePlace ==
    /\ TravelAccepting
    /\ \E id \in KnownIds \cup StrayIds, failAt \in DbFaults :
         \E o \in {deletePlace(DbNow, id, failAt)} :
            Apply([op |-> "deletePlace", id |-> id], o)

TravelPaths == {"/api/countries", "/api/places/1"}

\* An OPTIONS request: no route is registered for the method, so the chain
\* behind the middleware is gin's 404.
OptionsTravel ==
    /\ TravelAccepting
    /\ \E path \in TravelPaths :
         Apply([op |-> "options", path |-> path], Done(NoRoute, <<>>, DbNow))

\* The response has been delivered: the request is over.
TravelDone ==
    /\ treq # NoRequest
    /\ treq' = NoRequest
    /\ tresp' = NoResponse
    /\ tsql' = <<>>
    /\ UNCHANGED <<countries, places, countrySeq, placeSeq, tclients>>
    /\ UNCHANGED <<searchVars, convertVars>>

NextTravel ==
    \/ CreateCountry
    \/ GetCountry
    \/ UpdateCountry
    \/ DeleteCountry
    \/ CreatePlace
    \/ UpdatePlace
    \/ DeletePlace
    \/ TravelDone

SpecTravel == Init /\ [][NextTravel]_vars

(***************************************************************************)
(* Properties of the travel blog's partial updates.                        *)
(***************************************************************************)
PlaceTexts == {"name", "category", "city", "description"}
PlaceFields == PlaceTexts \cup {"visited_at"}
CountryFields == {"name", "description"}

\* The row id a request names; 0, the id of no row, when it names none.
TargetOf(request) ==
    LET p == ParseInt(request.id)
    IN  IF p.ok /\ FitsInteger(p.val) THEN I64ToInt(p.val) ELSE 0

\* A member a request body does not mention.
Unmentioned(body, f) == ~body.ok \/ body.members[f] = JAbsent

\* A member a request body gives as null, and one it gives as a text.
GivenNull(body, f) == body.ok /\ body.members[f] = JNull
GivenText(body, f) == body.ok /\ body.members[f].t = "string"

UpdatingPlace == treq.op = "updatePlace"
UpdatingCountry == treq.op = "updateCountry"

\* What C1 asks of one step: a step that handles PUT /api/places/:id or
\* PUT /api/countries/:id keeps every row, and in every row every updatable
\* field that the request does not mention keeps exactly the value it had
\* before; the other table is not touched.
C1_Step ==
    /\ treq'.op = "updatePlace" =>
          /\ DOMAIN places' = DOMAIN places
          /\ \A id \in DOMAIN places :
                /\ \A f \in PlaceFields :
                      Unmentioned(treq'.body, f) => places'[id][f] = places[id][f]
                /\ id # TargetOf(treq') => places'[id] = places[id]
          /\ countries' = countries
    /\ treq'.op = "updateCountry" =>
          /\ DOMAIN countries' = DOMAIN countries
          /\ \A id \in DOMAIN countries :
                /\ \A f \in CountryFields :
                      Unmentioned(treq'.body, f) => countries'[id][f] = countries[id][f]
                /\ id # TargetOf(treq') => countries'[id] = countries[id]
          /\ places' = places

\* C1: every update of a place or a country that mentions only some of the
\* updatable fields leaves every field it does not mention with exactly the
\* value it had before the update.
C1_Frame == [][C1_Step]_vars

\* C1 witness: an update of a place that gave a name only was answered 200; the
\* name is the new one, the other fields are those the place was created with.
C1_Witness ==
    /\ UpdatingPlace
    /\ 1 \in DOMAIN places
    /\ tresp.status = StatusOK
    /\ treq.body = Body(PlaceMembers(JStr(<<" ", "Q", " ">>), JAbsent, JAbsent, JAbsent, JAbsent))
    /\ places[1].name = <<"Q">>
    /\ places[1].category = <<"c">>
    /\ places[1].visited_at = ParseDate(LeapDay).val

\* C1 witness for a country: a description only.
C1_CountryWitness ==
    /\ UpdatingCountry
    /\ 1 \in DOMAIN countries
    /\ tresp.status = StatusOK
    /\ treq.body = Body(CountryMembers(JAbsent, JStr(<<" ", "e">>)))
    /\ countries[1].name = <<"A">>
    /\ countries[1].description = <<"e">>

\* What C2 asks of one step: a step that handles an update of an existing row
\* in which a member is null clears visited_at when that is the null member,
\* and when a text field is the null member answers 400 and leaves the row as
\* it was.
C2_Step ==
    /\ (treq'.op = "updatePlace" /\ TargetOf(treq') \in DOMAIN places) =>
          LET id == TargetOf(treq')
          IN  /\ (/\ GivenNull(treq'.body, "visited_at")
                  /\ \A f \in PlaceTexts : ~GivenNull(treq'.body, f)
                  /\ tresp'.status = StatusOK)
                 => places'[id].visited_at = SqlNull
              /\ (\E f \in PlaceTexts : GivenNull(treq'.body, f))
                 => (tresp'.status = StatusBadRequest /\ places' = places)
    /\ (treq'.op = "updateCountry" /\ TargetOf(treq') \in DOMAIN countries) =>
          ((\E f \in CountryFields : GivenNull(treq'.body, f))
             => (tresp'.status = StatusBadRequest /\ countries' = countries))

\* C2 as stated: an update that gives the nullable visited_at as null clears
\* it, and one that gives name, category, city or description as null is
\* answered 400 and changes nothing.
C2_AsStated == [][C2_Step]_vars

\* C2, where it fails for the nullable field: visited_at given as null is
\* answered 200 and the stored date stays.
C2_NullKeepsDate ==
    /\ UpdatingPlace
    /\ 1 \in DOMAIN places
    /\ tresp.status = StatusOK
    /\ treq.body = Body(PlaceMembers(JAbsent, JAbsent, JAbsent, JAbsent, JNull))
    /\ places[1].visited_at = ParseDate(LeapDay).val

\* C2, where it fails for a text field: name given as null is answered 200.
C2_NullNameAccepted ==
    /\ UpdatingPlace
    /\ 1 \in DOMAIN places
    /\ tresp.status = StatusOK
    /\ GivenNull(treq.body, "name")
    /\ places[1].name = <<"P">>

\* The UPDATE of the request was executed and met the row the request names.
UpdateApplied(table, sql) ==
    /\ tsql # <<>>
    /\ tsql[1] = Stmt(sql, FALSE)
    /\ TargetOf(treq) \in DOMAIN table

\* C3 as stated: after an update that gives a field as a text, the stored field
\* of the row the request names is that text (for visited_at: the date the
\* text writes), whatever else the request holds.
C3_AsStated ==
    /\ (UpdatingPlace /\ TargetOf(treq) \in DOMAIN places) =>
          LET row == places[TargetOf(treq)]
          IN  /\ \A f \in PlaceTexts :
                    GivenText(treq.body, f) => row[f] = treq.body.members[f].v
              /\ GivenText(treq.body, "visited_at") =>
                    row.visited_at = ParseDate(treq.body.members["visited_at"].v).val
    /\ (UpdatingCountry /\ TargetOf(treq) \in DOMAIN countries) =>
          \A f \in CountryFields :
              GivenText(treq.body, f) =>
                  countries[TargetOf(treq)][f] = treq.body.members[f].v

\* C3, amended: an update whose UPDATE statement was executed on the row it
\* names leaves in every text field given as a text that text with the white
\* space around it trimmed (the empty text for a blank one), and in visited_at
\* the date given, or NULL when the empty text was given; whatever the stored
\* values were and whatever the other members are.  The statement is executed
\* on the row exactly when the id is that of a row, the body binds, a
\* non-empty visited_at is a date, and the database takes the statement; a
\* visited_at that is no date is answered 400.
C3_Replaced ==
    /\ UpdatingPlace =>
          LET body == treq.body
              id == TargetOf(treq)
              given == GivenText(body, "visited_at") /\ body.members["visited_at"].v # <<>>
              badDate == given /\ ParseDate(body.members["visited_at"].v).err
          IN  /\ UpdateApplied(places, "UPDATE places") =>
                    /\ \A f \in PlaceTexts :
                          GivenText(body, f) => places[id][f] = TrimSpace(body.members[f].v)
                    /\ given => places[id].visited_at = ParseDate(body.members["visited_at"].v).val
                    /\ (GivenText(body, "visited_at") /\ ~given) => places[id].visited_at = SqlNull
                    /\ ~badDate
              /\ (id \in DOMAIN places /\ BindStrings(body) /\ badDate) =>
                    tresp.status = StatusBadRequest
              /\ (id \in DOMAIN places /\ BindStrings(body) /\ ~badDate) =>
                    (UpdateApplied(places, "UPDATE places") \/ tsql = <<Stmt("UPDATE places", TRUE)>>)
              /\ tresp.status = StatusOK => UpdateApplied(places, "UPDATE places")
    /\ UpdatingCountry =>
          LET body == treq.body
              id == TargetOf(treq)
          IN  /\ UpdateApplied(countries, "UPDATE countries") =>
                    \A f \in CountryFields :
                        GivenText(body, f) => countries[id][f] = TrimSpace(body.members[f].v)
              /\ (id \in DOMAIN countries /\ BindStrings(body)) =>
                    (UpdateApplied(countries, "UPDATE countries")
                       \/ tsql = <<Stmt("UPDATE countries", TRUE)>>)
              /\ tresp.status = StatusOK => UpdateApplied(countries, "UPDATE countries")

\* C3 witness: an update that gave a padded name, a blank-free city and a date
\* was answered 200; the row holds the trimmed name and the date.
C3_Witness ==
    /\ UpdatingPlace
    /\ 1 \in DOMAIN places
    /\ tresp.status = StatusOK
    /\ treq.body = Body(PlaceMembers(JStr(<<" ", "Q", " ">>), JNull, JStr(<<"y">>), JAbsent,
                                     JStr(Twelfth)))
    /\ places[1].name = <<"Q">>
    /\ places[1].city = <<"y">>
    /\ places[1].visited_at = [y |-> 2025, m |-> 11, d |-> 12]

\* C3, where the statement fails: a name given with blanks around it is stored
\* without them.
C3_Trimmed ==
    /\ UpdatingPlace
    /\ 1 \in DOMAIN places
    /\ tresp.status = StatusOK
    /\ treq.body.members["name"] = JStr(<<" ", "Q", " ">>)
    /\ places[1].name = <<"Q">>

\* C3, where the statement fails: a name given beside a visited_at that is no
\* date is not stored.
C3_Rejected ==
    /\ UpdatingPlace
    /\ 1 \in DOMAIN places
    /\ tresp.status = StatusBadRequest
    /\ treq.body.members["name"] = JStr(<<" ", "Q", " ">>)
    /\ treq.body.members["visited_at"] = JStr(NoSuchDay)
    /\ places[1].name = <<"P">>

(***************************************************************************)
(* Properties of the handlers' validation.                                 *)
(***************************************************************************)
\* The kinds of invalid input a request to the converter carries: a wrong
\* method, a missing (or empty) base or target, an amount that is no number.
InvalidKinds(r) ==
    (IF r.method # "GET" THEN {"method"} ELSE {})
    \cup (IF NoCode(r.base) \/ NoCode(r.target) THEN {"missing"} ELSE {})
    \cup (IF r.amount.text # <<>> /\ NotANumber(r.amount.text) THEN {"number"} ELSE {})

\* One request of each kind, invalid in that one way only.
ValidationProbes ==
    { ConvertRequest("handler", "POST", "/api/convert", Param(<<"u", "s", "d">>),
                     Param(<<"E", "U", "R">>), Param(<<"2">>)),
      ConvertRequest("handler", "GET", "/api/convert", NoParam,
                     Param(<<"E", "U", "R">>), Param(<<"2">>)),
      ConvertRequest("handler", "GET", "/api/convert", Param(<<"u", "s", "d">>),
                     Param(<<"E", "U", "R">>), Param(<<"a", "b", "c">>)) }

\* C11 as stated: the three kinds of invalid input are rejected with three
\* distinct 4xx status codes, that is, the status of a request that is invalid
\* in one way differs from the status of every request that is invalid in
\* another way.
C11_AsStated ==
    (ConvertHandled /\ Cardinality(InvalidKinds(creq)) = 1) =>
        \A probe \in ValidationProbes :
            InvalidKinds(probe) # InvalidKinds(creq) =>
                convertHandler(probe, UpstreamFailure).resp.status # cresp.status

\* C11, amended: the handlers reject invalid input with a 4xx status that is
\* 405 for a wrong method and 400 for the two other kinds alike: a missing
\* base or target and an amount that is no number share 400 and differ in the
\* message only; a non-numeric id and a missing required body member of the
\* travel blog are 400 as well.
C11_Statuses ==
    /\ (ConvertHandled /\ InvalidKinds(creq) # {}) =>
          /\ cresp.status = (IF "method" \in InvalidKinds(creq)
                             THEN StatusMethodNotAllowed ELSE StatusBadRequest)
          /\ cresp.status \in 400..499
          /\ cfetch = <<>>
    /\ \A idText \in KnownIds \cup StrayIds :
          parseIDParam(idText).err =>
              /\ getCountry(DbNow, idText, 0).resp.status = StatusBadRequest
              /\ deleteCountry(DbNow, idText, 0).resp.status = StatusBadRequest
              /\ deletePlace(DbNow, idText, 0).resp.status = StatusBadRequest
    /\ \A body \in CreateCountryBodies :
          body.members["name"] = JAbsent =>
              createCountry(DbNow, body, 0).resp.status = StatusBadRequest

\* C11 witness: a GET without base and a GET with amount=abc are both
\* answered 400; here the one without base, while the probe with amount=abc
\* is answered 400 too.
C11_Witness ==
    /\ ConvertHandled
    /\ creq.method = "GET"
    /\ creq.base = NoParam
    /\ creq.target = Param(<<"E", "U", "R">>)
    /\ creq.amount = Param(<<"2">>)
    /\ cresp.status = StatusBadRequest
    /\ \E probe \in ValidationProbes :
          /\ InvalidKinds(probe) = {"number"}
          /\ convertHandler(probe, UpstreamFailure).resp.status = StatusBadRequest

(***************************************************************************)
(* Properties of the converter's rate fetch.                               *)
(***************************************************************************)
\* A valid GET request that convertHandler handled.
ValidConvert ==
    /\ ConvertHandled
    /\ InvalidKinds(creq) = {}

\* The fetcher was called and returned an error.
FetchFailed == cfetch # <<>> /\ cfetch[1].err # ""

\* The fetcher was called and returned a rate with a nil error.
FetchOK == cfetch # <<>> /\ cfetch[1].err = ""

\* C12: when the rate fetcher returns an error for a valid GET request,
\* convertHandler answers 502 with the text "failed to fetch rate", whatever
\* the error is: the body does not depend on the error.
C12_GenericMessage ==
    (ValidConvert /\ FetchFailed) =>
        /\ cresp.status = StatusBadGateway
        /\ cresp.body = TextBody("failed to fetch rate")
        /\ cresp.body # TextBody(cfetch[1].err)

\* C12 witness: the fetcher failed with "received zero price from api" and the
\* client was told "failed to fetch rate".
C12_Witness ==
    /\ ValidConvert
    /\ FetchFailed
    /\ cfetch[1].err = "received zero price from api"
    /\ cresp = HttpError("failed to fetch rate", StatusBadGateway)

\* C12, a second error: the transport failed, and the body is the same.
C12_TransportWitness ==
    /\ ValidConvert
    /\ cfetch # <<>>
    /\ cfetch[1].err = "transport"
    /\ cresp.body = TextBody("failed to fetch rate")

\* What the finance API answered carries no usable price: the request failed
\* in transport, the status is not 200, the body is no chart JSON, the chart
\* carries an error object or no result, or the first result's price is zero
\* or missing.
Unusable(upstream) ==
    \/ upstream.kind = "transport"
    \/ /\ upstream.kind = "http"
       /\ \/ upstream.status # StatusOK
          \/ upstream.payload.kind # "chart"
          \/ upstream.payload.kind = "chart" /\ upstream.payload.error
          \/ upstream.payload.kind = "chart" /\ upstream.payload.results = <<>>
          \/ /\ upstream.payload.kind = "chart"
             /\ upstream.payload.results # <<>>
             /\ upstream.payload.results[1] = FNum(0)

\* C13: fetchRate never returns a rate of zero with a nil error; an answer of
\* the finance API without a usable price is returned as an error, and
\* convertHandler then answers 502.
C13_NoZeroRate ==
    (ConvertHandled /\ cfetch # <<>>) =>
        /\ Len(cfetch) = 1
        /\ FetchOK => cfetch[1].rate # FNum(0)
        /\ Unusable(cfetch[1].upstream) <=> FetchFailed
        /\ FetchFailed => cresp.status = StatusBadGateway

\* C13 witness: the finance API answered 200 with a price of zero, fetchRate
\* returned an error and convertHandler answered 502.
C13_Witness ==
    /\ ConvertHandled
    /\ cfetch # <<>>
    /\ cfetch[1].upstream = Upstream(StatusOK, ChartResults(<<FNum(0)>>))
    /\ cfetch[1].err = "received zero price from api"
    /\ cresp.status = StatusBadGateway

\* C13, the other way: a price that is not zero is returned with a nil error.
C13_PriceWitness ==
    /\ ConvertHandled
    /\ FetchOK
    /\ cfetch[1].upstream = Upstream(StatusOK, ChartResults(<<FNum(110)>>))
    /\ cfetch[1].rate = FNum(110)

\* The amount a request asks to convert: 1 when amount is absent (or empty),
\* else the number its text stands for.
RequestedAmount(r) ==
    IF r.amount.text = <<>> THEN FNum(10 ^ 2) ELSE ParseFloat(r.amount.text).val

\* C14 as stated: for a valid GET request for which the fetcher returns rate r
\* without error, the handler calls the fetcher once, with the upper-cased
\* base and target, answers 200, and the body has rate = r, amount = the
\* parsed amount (1 when absent) and converted = r * amount.
C14_Converted ==
    (ValidConvert /\ FetchOK) =>
        /\ Len(cfetch) = 1
        /\ cfetch[1].call.base = ToUpper(creq.base.text)
        /\ cfetch[1].call.target = ToUpper(creq.target.text)
        /\ cresp.status = StatusOK
        /\ cresp.body.kind = "json"
        /\ cresp.body.value.rate = cfetch[1].rate
        /\ cresp.body.value.amount = RequestedAmount(creq)
        /\ cresp.body.value.converted = FMul(cfetch[1].rate, RequestedAmount(creq))

\* C14, where it fails: amount=NaN passes strconv.ParseFloat, the fetcher
\* returns a rate, and the response is 200 with no body at all, because
\* encoding/json cannot encode NaN.
C14_NaNAmount ==
    /\ ValidConvert
    /\ FetchOK
    /\ creq.amount = Param(<<"N", "a", "N">>)
    /\ cresp.status = StatusOK
    /\ cresp.body = NoBody

\* C14 for the amounts that are finite numbers: there the statement holds.
C14_FiniteAmounts ==
    (ValidConvert /\ FetchOK /\ RequestedAmount(creq).kind = "num") =>
        /\ cfetch[1].call.base = ToUpper(creq.base.text)
        /\ cfetch[1].call.target = ToUpper(creq.target.text)
        /\ cresp.status = StatusOK
        /\ cresp.body = JsonBody([base |-> ToUpper(creq.base.text),
                                  target |-> ToUpper(creq.target.text),
                                  amount |-> RequestedAmount(creq),
                                  rate |-> cfetch[1].rate,
                                  converted |-> FMul(cfetch[1].rate, RequestedAmount(creq)),
                                  source |-> "yahoo-finance"])

(***************************************************************************)
(* The three servers side by side, one request at a time: the converter    *)
(* behind withCORS, the movie service and the travel blog behind their gin *)
(* middleware, each asked with OPTIONS and with the methods of its routes. *)
(***************************************************************************)
Quiet == sreq = NoRequest /\ creq = NoRequest /\ treq = NoRequest

NextCors ==
    \/ Quiet /\ Bootstrap
    \/ Quiet /\ OptionsMovies
    \/ Quiet /\ SearchMovies
    \/ Quiet /\ GetMovie
    \/ Quiet /\ DeleteMovie
    \/ SearchDone
    \/ Quiet /\ ConvertServe
    \/ ConvertDone
    \/ Quiet /\ CreateCountry
    \/ Quiet /\ GetCountry
    \/ Quiet /\ DeleteCountry
    \/ Quiet /\ OptionsTravel
    \/ TravelDone

SpecCors == Init /\ [][NextCors]_vars

(***************************************************************************)
(* Properties of the CORS layers.                                          *)
(***************************************************************************)
AllowOrigin == <<"Access-Control-Allow-Origin", "*">>

\* A request the converter's server took (through withCORS).
ConvertServed == creq.op = "convert" /\ creq.entry = "server"

\* A request a gin router took (through its middleware).
MovieServed == sreq.op \notin {"none", "boot"}
TravelServed == treq.op # "none"

\* C15: in all three services the CORS layer sets Access-Control-Allow-Origin
\* to * on every request; an OPTIONS request is answered 204 with an empty
\* body and the wrapped handler is not run (no call to the fetcher, the index
\* or the database, nothing but the CORS headers written); a request of
\* another method gets the status and body the wrapped handler produced.
C15_Cors ==
    /\ ConvertServed =>
          /\ AllowOrigin \in cresp.headers
          /\ creq.method = "OPTIONS" =>
                (cresp = Reply(StatusNoContent, CorsHeaders, NoBody) /\ cfetch = <<>>)
          /\ creq.method # "OPTIONS" =>
                \E upstream \in Upstreams :
                    \E h \in {serveMux(creq, upstream)} :
                        /\ h.fetches = cfetch
                        /\ h.resp.status = cresp.status
                        /\ h.resp.body = cresp.body
                        /\ cresp.headers = h.resp.headers \cup CorsHeaders
    /\ MovieServed =>
          /\ AllowOrigin \in sresp.headers
          /\ sreq.op = "options" =>
                (sresp.status = StatusNoContent /\ sresp.body = NoBody /\ esCalls = <<>>)
          /\ sreq.op = "get" =>
                \E fault \in EsFaults :
                    \E h \in {handleGetMovie(esIndex, esVisible, sreq.id, fault)} :
                        /\ h.calls = esCalls
                        /\ h.resp.status = sresp.status
                        /\ h.resp.body = sresp.body
          /\ sreq.op = "delete" =>
                /\ Len(esCalls) = 1
                /\ sresp.status \in {StatusNoContent, StatusNotFound, StatusInternalServerError}
                /\ sresp.status = StatusNoContent <=> esCalls[1].result = "none"
    /\ TravelServed =>
          /\ AllowOrigin \in tresp.headers
          /\ treq.op = "options" =>
                (tresp.status = StatusNoContent /\ tresp.body = NoBody /\ tsql = <<>>)
          /\ treq.op = "getCountry" =>
                \E failAt \in DbFaults :
                    \E h \in {getCountry(DbNow, treq.id, failAt)} :
                        /\ h.stmts = tsql
                        /\ h.resp.status = tresp.status
                        /\ h.resp.body = tresp.body
          /\ treq.op \in {"createCountry", "deleteCountry"} =>
                (tsql # <<>> \/ tresp.status = StatusBadRequest)

\* C15 witness: the movie service answered an OPTIONS request with 204, the
\* CORS headers and no body, without a call to the index.
C15_Witness ==
    /\ sreq.op = "options"
    /\ sresp = WithHeaders(Response(StatusNoContent, NoBody), MovieCorsHeaders)
    /\ esCalls = <<>>

\* C15, the converter: OPTIONS is answered by withCORS, GET by the handler.
C15_ConvertOptions ==
    /\ ConvertServed
    /\ creq.method = "OPTIONS"
    /\ creq.path = "/api/convert"
    /\ cresp.status = StatusNoContent

C15_ConvertPassed ==
    /\ ConvertServed
    /\ creq.method = "GET"
    /\ cresp.status = StatusOK
    /\ cresp.body.kind = "json"
    /\ AllowOrigin \in cresp.headers

\* C15, the travel blog: OPTIONS is answered 204, a GET by getCountry.
C15_TravelOptions ==
    /\ treq.op = "options"
    /\ tresp.status = StatusNoContent
    /\ tsql = <<>>

C15_TravelPassed ==
    /\ treq.op = "getCountry"
    /\ tresp.status = StatusOK
    /\ tresp.headers = TravelCorsHeaders

C15_MoviePassed ==
    /\ sreq.op = "get"
    /\ sresp.status = StatusOK
    /\ sresp.headers = MovieCorsHeaders

(***************************************************************************)
(* Properties of the delete endpoints.                                     *)
(***************************************************************************)
\* The step takes up a delete request of the travel blog for an integer id,
\* and the database answers every statement of it.
DeleteTaken(op) ==
    /\ treq = NoRequest
    /\ treq'.op = op
    /\ TargetOf(treq') # 0
    /\ \A i \in 1..Len(tsql') : ~tsql'[i].err

\* What C16 says of a delete of row id of a table: 404 and no change when the
\* row is not there, else 204 and the row gone.
DeletedOrNotFound(id, table, tableAfter) ==
    IF id \in DOMAIN table
    THEN tresp'.status = StatusNoContent /\ id \notin DOMAIN tableAfter
    ELSE /\ tresp'.status = StatusNotFound
         /\ UNCHANGED <<countries, places, countrySeq, placeSeq>>

C16_CountryStep ==
    DeleteTaken("deleteCountry") => DeletedOrNotFound(TargetOf(treq'), countries, countries')

C16_PlaceStep ==
    DeleteTaken("deletePlace") => DeletedOrNotFound(TargetOf(treq'), places, places')

C16_PlaceStepAmended ==
    DeleteTaken("deletePlace") =>
        LET id == TargetOf(treq')
        IN  IF id \in DOMAIN places
            THEN /\ id \notin DOMAIN places'
                 /\ countries' = countries
                 /\ DOMAIN places' = DOMAIN places \ {id}
                 /\ tresp'.status = StatusOK
                 /\ tresp'.body =
                        CountryBody(fetchCountry(Database(countries', places', countrySeq',
                                                          placeSeq'),
                                                 places[id].country_id, 0).country)
            ELSE /\ tresp'.status = StatusNotFound
                 /\ UNCHANGED <<countries, places, countrySeq, placeSeq>>

C16_Countries == [][C16_CountryStep]_vars

\* C16 for a place that is not there: 404.
C16_NoPlace ==
    /\ treq.op = "deletePlace"
    /\ TargetOf(treq) = 7
    /\ tresp.status = StatusNotFound

\* C16 for movies: DELETE /api/movies/:id answers 404 and leaves the index
\* unchanged when the index has no document of the id, and removes the
\* document and answers 204 when it has (the index answering the call).
C16_MovieStep ==
    (/\ sreq = NoRequest
     /\ sreq'.op = "delete"
     /\ esCalls'[1].result \in {"none", "not_found"})
    => IF sreq'.id \in DOMAIN esIndex
       THEN sresp'.status = StatusNoContent /\ sreq'.id \notin DOMAIN esIndex'
       ELSE sresp'.status = StatusNotFound /\ esIndex' = esIndex

C16_Movies == [][C16_MovieStep]_vars

(***************************************************************************)
(* Properties of the handlers' terminal states.                            *)
(***************************************************************************)
\* The bodies that are JSON: an error object, a country (or null).
TravelJsonKinds == {"error", "country", "null"}

\* The step takes up a request of the travel blog and answers it.
TravelTaken == treq = NoRequest /\ treq' # NoRequest /\ treq'.op # "options"

\* C17 as stated, for the travel blog: every request ends with one status
\* code and one JSON body written, and a request that ends in a failure
\* status (4xx or 5xx) has written nothing to the database.
C17_Step ==
    TravelTaken =>
        /\ tresp'.status # 0
        /\ tresp'.body.kind \in TravelJsonKinds
        /\ tresp'.status >= 400 => UNCHANGED <<countries, places, countrySeq, placeSeq>>

\* C17 as stated, as a property of every step: each request of the travel
\* blog ends with one status code and one JSON body, and with the database
\* unchanged when the status is one of failure.
C17_Terminal == [][C17_Step]_vars

\* C17, where it fails: updatePlace's UPDATE was executed, the SELECT after
\* it failed, and the request ended with 500 while the row holds the new name.
C17_WrittenThenFailed ==
    /\ treq.op = "updatePlace"
    /\ tresp.status = StatusInternalServerError
    /\ Len(tsql) = 2
    /\ tsql[1] = Stmt("UPDATE places", FALSE)
    /\ tsql[2] = Stmt("SELECT country_id", TRUE)
    /\ GivenText(treq.body, "name")
    /\ 1 \in DOMAIN places
    /\ places[1].name = TrimSpace(treq.body.members["name"].v)
    /\ places[1].name # <<"P">>

\* C17, where it fails as well: a country is deleted and the answer is 204
\* with no body at all.
C17_NoBody ==
    /\ treq.op = "deleteCountry"
    /\ tresp.status = StatusNoContent
    /\ tresp.body = NoBody

\* C17, the part that holds: every request is answered with exactly one of
\* the handlers' status codes, and a request refused with a 4xx status has
\* written nothing.
C17_RefusedStep ==
    TravelTaken =>
        /\ tresp'.status \in {StatusOK, StatusCreated, StatusNoContent, StatusBadRequest,
                              StatusNotFound, StatusInternalServerError}
        /\ tresp'.status \in 400..499 =>
              UNCHANGED <<countries, places, countrySeq, placeSeq>>

C17_Refused == [][C17_RefusedStep]_vars

(***************************************************************************)
(* Properties of the handlers' external calls.                             *)
(***************************************************************************)
\* An Elasticsearch call that came back as an error.
EsFailed(call) == call.result # "none"

C18_FetchWitness ==
    /\ creq.op = "convert"
    /\ Len(cfetch) = 1
    /\ cfetch[1].err = "transport"
    /\ cresp.status = StatusBadGateway

\* C18, the index: a get of a missing document is answered 404, a failed
\* search 500, each after one call.
C18_NotFoundWitness ==
    /\ sreq.op = "get"
    /\ Len(esCalls) = 1
    /\ esCalls[1].result = "not_found"
    /\ sresp.status = StatusNotFound

C18_SearchWitness ==
    /\ sreq.op = "search"
    /\ Len(esCalls) = 1
    /\ esCalls[1].result = "transport"
    /\ sresp.status = StatusInternalServerError

(***************************************************************************)
(* Properties of the records' ids.                                         *)
(***************************************************************************)
\* The ids the movie service has generated so far (uuid.NewString in
\* seedMovies and handleCreateMovie).
GeneratedIds == {Uuids[i] : i \in 1..uuidNext}

\* C19 as stated, for the movie service: every stored movie has an id the
\* server generated in a create operation; no update brings a record with a
\* client-chosen id into existence.
C19_ServerIds == DOMAIN esIndex \subseteq GeneratedIds

\* C19, where it fails: PUT /api/movies/zz, for an id no movie has, stores a
\* movie under that id and answers 200.
C19_Upsert ==
    /\ sreq.op = "update"
    /\ sreq.id = "zz"
    /\ sresp.status = StatusOK
    /\ "zz" \in DOMAIN esIndex
    /\ "zz" \notin GeneratedIds

\* C19, the part that holds for movies: a create stores the movie under the
\* id the server generated and answers with that id, whatever id the body
\* carries.
C19_CreatedId ==
    (sreq.op = "create" /\ sresp.status = StatusCreated) =>
        /\ sresp.body.movie.id = Uuids[uuidNext]
        /\ sresp.body.movie.id \in DOMAIN esIndex
        /\ sresp.body.movie.id # sreq.body.movie.id

\* C19, the part that holds for the travel blog: every row's id comes from
\* its table's sequence and is the key it is stored under.
C19_TravelIds ==
    /\ \A id \in DOMAIN countries : id \in 1..countrySeq /\ countries[id].id = id
    /\ \A id \in DOMAIN places : id \in 1..placeSeq /\ places[id].id = id

(***************************************************************************)
(* Properties of the index refresh.                                        *)
(***************************************************************************)
\* A write of the movie API that was answered with its status of success.
WriteAnswered ==
    \/ sreq.op = "create" /\ sresp.status = StatusCreated
    \/ sreq.op = "update" /\ sresp.status = StatusOK
    \/ sreq.op = "delete" /\ sresp.status = StatusNoContent

\* C20 as stated: every write operation of the movie API (create, update,
\* delete) has refreshed the index when it responds, so that a search issued
\* after the response finds exactly the stored documents.
C20_Refreshed == WriteAnswered => esVisible = esIndex

\* C20, where it fails: a movie was deleted and the delete answered 204, and
\* a search after it still returns that movie.
C20_StaleSearch ==
    /\ SearchOK
    /\ SearchCall.result = "none"
    /\ \E i \in 1..Len(sresp.body.movies) : sresp.body.movies[i].id \notin DOMAIN esIndex

\* C20, at the delete itself: 204 is answered while the deleted movie is
\* still searchable.
C20_DeletedVisible ==
    /\ sreq.op = "delete"
    /\ sresp.status = StatusNoContent
    /\ sreq.id \notin DOMAIN esIndex
    /\ sreq.id \in DOMAIN esVisible

\* C20, the part that holds: create and update ask for a refresh, and when
\* they answer with success the written movie is searchable with its new
\* fields.
C20_IndexRefreshed ==
    (sreq.op \in {"create", "update"} /\ sresp.status \in {StatusOK, StatusCreated}) =>
        /\ esCalls[1].refresh
        /\ sresp.body.movie.id \in DOMAIN esVisible
        /\ esVisible[sresp.body.movie.id] = MovieJSON(sresp.body.movie)

(***************************************************************************)
(* Restarts of the movie service.                                          *)
(***************************************************************************)
\* The process is started again (after log.Fatalf of a failed bootstrap, or
\* after the server was stopped); the index lives on in Elasticsearch.
Restart ==
    /\ phase \in {"serving", "crashed"}
    /\ phase = "serving" => sreq = NoRequest
    /\ phase' = "boot"
    /\ sreq' = NoRequest
    /\ sresp' = NoResponse
    /\ esCalls' = <<>>
    /\ UNCHANGED <<esIndex, esVisible, esExists, uuidNext>>
    /\ UNCHANGED <<convertVars, travelVars>>

NextRestart ==
    \/ Bootstrap
    \/ Restart
    \/ GetMovie
    \/ CreateMovie
    \/ DeleteMovie
    \/ EsRefresh
    \/ SearchDone

SpecRestart == Init /\ [][NextRestart]_vars

\* A step of main in which bootstrapElasticsearch returned nil.
Bootstrapped == phase = "boot" /\ phase' = "serving"

SeedTitles == {SeedData[i].title : i \in 1..Len(SeedData)}

\* C21: the bootstrap seeds the five sample movies if and only if the index is
\* empty: a successful bootstrap on an empty index leaves exactly five movies
\* in it, and a bootstrap on an index that holds a movie adds nothing.
C21_SeedIffEmpty ==
    [][Bootstrapped =>
          IF esIndex = EmptyIndex
          THEN Cardinality(DOMAIN esIndex') = Len(SeedData)
          ELSE esIndex' = esIndex]_vars

\* The bootstrap has succeeded and the index holds no movie at all.
C21_EmptyAfterBootstrap ==
    /\ phase = "serving"
    /\ sreq = [op |-> "boot"]
    /\ esIndex = EmptyIndex
    /\ esVisible # EmptyIndex

\* What seedMovies does: it seeds exactly when es.Count answers zero, that is
\* when no document is searchable.
C21_SeedIffCountZero ==
    [][Bootstrapped =>
          IF esVisible = EmptyIndex
          THEN Cardinality(DOMAIN esIndex') = Cardinality(DOMAIN esIndex) + Len(SeedData)
          ELSE esIndex' = esIndex]_vars

\* No restart stores a sample movie twice.
C21_NoDuplicates ==
    \A a, b \in DOMAIN esIndex :
        (esIndex[a]["title"] = esIndex[b]["title"] /\ esIndex[a]["title"].v \in SeedTitles)
            => a = b

\* A second bootstrap found the five samples and added nothing.
C21_RestartKeeps ==
    /\ phase = "serving"
    /\ sreq = [op |-> "boot"]
    /\ esCalls = <<[api |-> "exists", result |-> "none"], [api |-> "count", result |-> "none"]>>
    /\ Cardinality(DOMAIN esIndex) = Len(SeedData)

(***************************************************************************)
(* The create operations of the movie service and of the travel blog.      *)
(***************************************************************************)
NextCreate ==
    \/ Quiet /\ Bootstrap
    \/ Quiet /\ CreateMovie
    \/ SearchDone
    \/ Quiet /\ CreateCountry
    \/ Quiet /\ CreatePlace
    \/ TravelDone

SpecCreate == Init /\ [][NextCreate]_vars

\* A member of a body that is absent, null, empty or white space only.
Blank(member) == TrimSpace(GoString(member)) = <<>>

\* The step takes up a request of the movie service, of the travel blog.
MovieTaken(op) == sreq = NoRequest /\ sreq'.op = op
TravelTakes(op) == treq = NoRequest /\ treq'.op = op

MovieStoreKept == esIndex' = esIndex /\ esVisible' = esVisible /\ esCalls' = <<>>
TravelStoreKept == countries' = countries /\ places' = places /\ tsql' = <<>>

C22_MovieStep ==
    (MovieTaken("create") /\ (~sreq'.body.ok \/ sreq'.body.movie.title = ""))
        => sresp'.status = StatusBadRequest /\ MovieStoreKept

C22_CountryStep ==
    (TravelTakes("createCountry") /\ Blank(treq'.body.members["name"]))
        => tresp'.status = StatusBadRequest /\ TravelStoreKept

C22_PlaceStep ==
    (/\ TravelTakes("createPlace")
     /\ Blank(treq'.body.members["name"]) \/ Blank(treq'.body.members["category"]))
        => tresp'.status = StatusBadRequest /\ TravelStoreKept

\* C22: every create operation enforces its required fields: POST /api/movies
\* without a title, POST /api/countries without a non-blank name and POST
\* /api/countries/:id/places without a non-blank name and category are
\* answered 400, and nothing is written.
C22_RequiredFields == [][C22_MovieStep /\ C22_CountryStep /\ C22_PlaceStep]_vars

\* A place with a name and a blank category was refused under a country that
\* exists.
C22_Witness ==
    /\ treq.op = "createPlace"
    /\ treq.id \in KnownIds
    /\ 1 \in DOMAIN countries
    /\ ~Blank(treq.body.members["name"])
    /\ Blank(treq.body.members["category"])
    /\ tresp.status = StatusBadRequest
    /\ places = EmptyTable

\* A movie without a title was refused.
C22_MovieWitness ==
    /\ sreq.op = "create"
    /\ sreq.body.ok
    /\ sreq.body.movie.title = ""
    /\ sresp.status = StatusBadRequest

\* A country with a name of white space only was refused.
C22_CountryWitness ==
    /\ treq.op = "createCountry"
    /\ treq.body.members["name"] = JStr(<<" ">>)
    /\ tresp.status = StatusBadRequest
    /\ countries = EmptyTable

(***************************************************************************)
(* Requests that name a record the store does not hold.                    *)
(***************************************************************************)
\* The id of the request's path is an integer and no row of the table has it.
NoSuchRow(idText, table) ==
    /\ ~parseIDParam(idText).err
    /\ I64ToInt(parseIDParam(idText).id) \notin DOMAIN table

\* The step is the one the handler takes when the database fails at no
\* statement of its own accord (out is the handler's outcome for failAt = 0).
Unfailed(out) ==
    /\ tresp' = WithHeaders(out.resp, TravelCorsHeaders)
    /\ tsql' = out.stmts

\* The request was not refused as invalid (id, body) before any lookup.
TravelValid == tresp'.status # StatusBadRequest

NotFoundKept == tresp'.status = StatusNotFound /\ countries' = countries /\ places' = places

C23_GetCountryStep ==
    (/\ TravelTakes("getCountry")
     /\ NoSuchRow(treq'.id, countries)
     /\ Unfailed(getCountry(DbNow, treq'.id, 0)))
        => NotFoundKept

C23_UpdateCountryStep ==
    (/\ TravelTakes("updateCountry")
     /\ NoSuchRow(treq'.id, countries)
     /\ TravelValid
     /\ Unfailed(updateCountry(DbNow, treq'.id, treq'.body, 0)))
        => NotFoundKept

C23_UpdatePlaceStep ==
    (/\ TravelTakes("updatePlace")
     /\ NoSuchRow(treq'.id, places)
     /\ TravelValid
     /\ Unfailed(updatePlace(DbNow, treq'.id, treq'.body, 0)))
        => NotFoundKept

C23_CreatePlaceStep ==
    (/\ TravelTakes("createPlace")
     /\ NoSuchRow(treq'.id, countries)
     /\ TravelValid
     /\ Unfailed(createPlace(DbNow, treq'.id, treq'.body, 0)))
        => NotFoundKept

\* C23: every operation that addresses a record by an id the store does not
\* hold answers 404 and leaves the store unchanged: GET and PUT by id, and
\* POST of a place under a country id that does not exist.
C23_NotFound ==
    [][/\ C23_GetCountryStep
       /\ C23_UpdateCountryStep
       /\ C23_UpdatePlaceStep
       /\ C23_CreatePlaceStep]_vars

\* A valid place was posted under a country id no row has: the INSERT came
\* back with the foreign key's error and the answer is 500.
C23_ForeignKey ==
    /\ treq.op = "createPlace"
    /\ NoSuchRow(treq.id, countries)
    /\ tsql = <<Stmt("INSERT places", TRUE)>>
    /\ tresp.status = StatusInternalServerError
    /\ places = EmptyTable

\* What holds in the travel blog: GET and PUT by an id no row has.
C23_ByIdNotFound ==
    [][C23_GetCountryStep /\ C23_UpdateCountryStep /\ C23_UpdatePlaceStep]_vars

\* The index answered every call of the request (a missing document is an
\* answer).
EsAnswered == \A i \in DOMAIN esCalls' : esCalls'[i].result \in {"none", "not_found"}

C23_GetMovieStep ==
    (MovieTaken("get") /\ sreq'.id \notin DOMAIN esIndex /\ EsAnswered)
        => sresp'.status = StatusNotFound /\ esIndex' = esIndex

C23_UpdateMovieStep ==
    (/\ MovieTaken("update")
     /\ sreq'.id \notin DOMAIN esIndex
     /\ sresp'.status # StatusBadRequest
     /\ EsAnswered)
        => sresp'.status = StatusNotFound /\ esIndex' = esIndex

\* The same for the movie service: GET holds, PUT does not (the update
\* creates the document).
C23_GetMovie == [][C23_GetMovieStep]_vars
C23_UpdateMovie == [][C23_UpdateMovieStep]_vars

(***************************************************************************)
(* Validation before dispatch, in the three services.  The services share  *)
(* no state, so their requests are taken in one order: the travel blog and *)
(* the converter while the movie service has not been started.             *)
(***************************************************************************)
MovieNotStarted == phase = "boot"

NextValidate ==
    \/ Quiet /\ MovieNotStarted /\ ConvertServe
    \/ ConvertDone
    \/ Quiet /\ MovieNotStarted /\ CreateCountry
    \/ Quiet /\ MovieNotStarted /\ CreatePlace
    \/ Quiet /\ MovieNotStarted /\ UpdatePlace
    \/ TravelDone
    \/ Quiet /\ Bootstrap
    \/ Quiet /\ CreateMovie
    \/ Quiet /\ UpdateMovie
    \/ SearchDone

SpecValidate == Init /\ [][NextValidate]_vars

\* visited_at is given, not empty, and no date of the calendar.
MalformedDate(member) ==
    member.t = "string" /\ member.v # <<>> /\ ParseDate(member.v).err

\* The request of the travel blog fails the validation of its handler.
TravelInvalid(r) ==
    \/ r.op \in {"createPlace", "updatePlace"} /\ ~ParseInt(r.id).ok
    \/ r.op \in {"createPlace", "updatePlace"} /\ ~r.body.ok
    \/ /\ r.op = "createCountry"
       /\ Blank(r.body.members["name"])
    \/ /\ r.op = "createPlace"
       /\ r.body.ok
       /\ \/ Blank(r.body.members["name"])
          \/ Blank(r.body.members["category"])
          \/ MalformedDate(r.body.members["visited_at"])
    \/ /\ r.op = "updatePlace"
       /\ r.body.ok
       /\ MalformedDate(r.body.members["visited_at"])

\* The request of the movie service fails the binding of its body.
MovieInvalid(r) ==
    r.op \in {"create", "update"} /\ (~r.body.ok \/ r.body.movie.title = "")

\* C24: validation strictly precedes dispatch: a request that fails
\* validation (wrong method, missing or blank required parameter, amount or
\* id that is no number, malformed visited_at) is refused with a 4xx status
\* and makes no call at all to the rate fetcher, the index or the database;
\* and no request answered 400 or 405 has made one.
C24_NoDispatch ==
    /\ (ConvertHandled /\ InvalidKinds(creq) # {}) =>
          cfetch = <<>> /\ cresp.status \in {StatusBadRequest, StatusMethodNotAllowed}
    /\ cresp.status \in {StatusBadRequest, StatusMethodNotAllowed} => cfetch = <<>>
    /\ MovieInvalid(sreq) => esCalls = <<>> /\ sresp.status = StatusBadRequest
    /\ sresp.status = StatusBadRequest => esCalls = <<>>
    /\ TravelInvalid(treq) => tsql = <<>> /\ tresp.status = StatusBadRequest
    /\ tresp.status = StatusBadRequest => tsql = <<>>

\* An update of an existing place with a malformed visited_at was refused
\* before any statement.
C24_Witness ==
    /\ treq.op = "updatePlace"
    /\ treq.id \in KnownIds
    /\ 1 \in DOMAIN places
    /\ MalformedDate(treq.body.members["visited_at"])
    /\ tresp.status = StatusBadRequest
    /\ tsql = <<>>

\* An id that is no number was refused before any statement.
C24_IdWitness ==
    /\ treq.op = "updatePlace"
    /\ ~ParseInt(treq.id).ok
    /\ treq.body.ok
    /\ tresp.status = StatusBadRequest
    /\ tsql = <<>>

\* An amount that is no number was refused before the fetcher was called.
C24_AmountWitness ==
    /\ ConvertHandled
    /\ InvalidKinds(creq) = {"number"}
    /\ cresp.status = StatusBadRequest
    /\ cfetch = <<>>

\* A movie without a title was refused before the index was called.
C24_MovieWitness ==
    /\ sreq.op = "update"
    /\ sreq.id \in DOMAIN esIndex
    /\ MovieInvalid(sreq)
    /\ sresp.status = StatusBadRequest
    /\ esCalls = <<>>

(***************************************************************************)
(* A request call by call, and the client that disconnects.                *)
(*                                                                         *)
(* Here a handler is not one step: a request is begun, each of its         *)
(* external calls is issued and returns, and the response is written.  The *)
(* request record holds, besides the request, how far the handler is:      *)
(* issued (the calls started), flight ("none", "open" while a call is in   *)
(* flight, "returned", "aborted"), gone (the client has disconnected, so   *)
(* c.Request.Context() is cancelled) and goneAt (the call that was in      *)
(* flight then, 0 for none).  The calls of a request are those of its      *)
(* handler; what a call changes in the store shows when the handler is     *)
(* done.                                                                   *)
(***************************************************************************)
Begun == [gone |-> FALSE, goneAt |-> 0, flight |-> "none", issued |-> 0]

Running(r) == r.op \notin {"none", "boot"}

\* The calls that are given the request's context: es.Search, es.Get and
\* es.Delete are (WithContext(c.Request.Context())); es.Index of indexMovie,
\* the statements of the travel blog (db.Exec, db.QueryRow, db.Query) and the
\* request of fetchRate (http.NewRequest) are not.
EsCarriesContext(api) == api \in {"search", "get", "delete"}
SqlCarriesContext == FALSE
FetchCarriesContext == FALSE

\* The progress of a handler when its call in flight comes back: a call bound
\* to a cancelled context is aborted, any other call completes.
Returned(r, bound) ==
    [r EXCEPT !.flight = IF bound /\ r.gone THEN "aborted" ELSE "returned"]

\* The progress of a handler when it makes its next call: a call that is
\* given a context already cancelled fails at once and is not sent.
Issued(r, bound) ==
    [r EXCEPT !.issued = @ + 1, !.flight = IF bound /\ r.gone THEN "aborted" ELSE "open"]

Disconnected(r) ==
    [r EXCEPT !.gone = TRUE, !.goneAt = IF r.flight = "open" THEN r.issued ELSE 0]

\* ---- the travel blog
TravelPlan(r) ==
    CASE r.op = "createCountry" -> createCountry(DbNow, r.body, r.fault)
      [] r.op = "createPlace" -> createPlace(DbNow, r.id, r.body, r.fault)
      [] r.op = "updatePlace" -> updatePlace(DbNow, r.id, r.body, r.fault)

CancelTravelRequests ==
    {[op |-> "createCountry", id |-> <<>>, body |-> b] : b \in CreateCountryBodies}
    \cup {[op |-> "createPlace", id |-> <<"1">>,
           body |-> Body(PlaceMembers(JStr(<<"P">>), JStr(<<"c">>), JAbsent, JAbsent, JAbsent))]}
    \cup {[op |-> "updatePlace", id |-> i, body |-> b] : i \in KnownIds \cup StrayIds, b \in StrayBodies}

TravelBegin ==
    /\ Quiet
    /\ MovieNotStarted
    /\ \E r \in CancelTravelRequests, failAt \in DbFaults :
         /\ r.op = "createCountry" => countrySeq < MaxCountries
         /\ r.op = "createPlace" => placeSeq < MaxPlaces
         /\ treq' = [op |-> r.op, id |-> r.id, body |-> r.body, fault |-> failAt,
                     gone |-> Begun.gone, goneAt |-> Begun.goneAt,
                     flight |-> Begun.flight, issued |-> Begun.issued]
    /\ UNCHANGED <<countries, places, countrySeq, placeSeq, tsql, tresp, tclients>>
    /\ UNCHANGED <<searchVars, convertVars>>

\* The handler starts its next statement; nothing in it looks at the context.
TravelIssue ==
    /\ Running(treq)
    /\ tresp = NoResponse
    /\ treq.flight \in {"none", "returned"}
    /\ \E plan \in {TravelPlan(treq)} :
          /\ treq.issued < Len(plan.stmts)
          /\ tsql' = SubSeq(plan.stmts, 1, treq.issued + 1)
    /\ treq' = Issued(treq, SqlCarriesContext)
    /\ UNCHANGED <<countries, places, countrySeq, placeSeq, tresp, tclients>>
    /\ UNCHANGED <<searchVars, convertVars>>

TravelReturn ==
    /\ Running(treq)
    /\ treq.flight = "open"
    /\ treq' = Returned(treq, SqlCarriesContext)
    /\ UNCHANGED <<countries, places, countrySeq, placeSeq, tsql, tresp, tclients>>
    /\ UNCHANGED <<searchVars, convertVars>>

TravelRespond ==
    /\ Running(treq)
    /\ tresp = NoResponse
    /\ treq.flight \in {"none", "returned"}
    /\ \E served \in {travelCORS(TravelRoute(treq.op), DbNow, TravelPlan(treq))} :
          /\ treq.issued = Len(served.stmts)
          /\ tresp' = served.resp
          /\ countries' = served.db.countries
          /\ places' = served.db.places
          /\ countrySeq' = served.db.countrySeq
          /\ placeSeq' = served.db.placeSeq
    /\ UNCHANGED <<treq, tsql, tclients>>
    /\ UNCHANGED <<searchVars, convertVars>>

TravelClientGone ==
    /\ Running(treq)
    /\ tresp = NoResponse
    /\ ~treq.gone
    /\ treq' = Disconnected(treq)
    /\ UNCHANGED <<countries, places, countrySeq, placeSeq, tsql, tresp, tclients>>
    /\ UNCHANGED <<searchVars, convertVars>>

TravelOver == tresp # NoResponse /\ TravelDone

\* ---- the movie service
MoviePlanWith(r, fault) ==
    CASE r.op = "search" -> handleSearchMovies(esIndex, esVisible, r, fault, r.order)
      [] r.op = "get" -> handleGetMovie(esIndex, esVisible, r.id, fault)
      [] r.op = "delete" -> handleDeleteMovie(esIndex, esVisible, r.id, fault)
      [] r.op = "create" -> handleCreateMovie(esIndex, esVisible, r.body, Uuids[uuidNext + 1], fault)

MoviePlan(r) == MoviePlanWith(r, r.fault)

CancelMovieRequests ==
    {[op |-> "search", id |-> "", body |-> BadJSON, q |-> "Sci-Fi", page |-> <<>>,
      pageSize |-> <<"2">>, order |-> o] :
        o \in EsOrders(esVisible, EsHitIds(esVisible, SearchQuery("Sci-Fi")))}
    \cup {[op |-> op, id |-> "u1", body |-> BadJSON, q |-> "", page |-> <<>>,
           pageSize |-> <<>>, order |-> <<>>] : op \in {"get", "delete"}}
    \cup {[op |-> "create", id |-> "", body |-> b, q |-> "", page |-> <<>>,
           pageSize |-> <<>>, order |-> <<>>] : b \in MovieBodies}

MovieBegin ==
    /\ Quiet
    /\ phase = "serving"
    /\ \E r \in CancelMovieRequests, fault \in EsFaults :
         /\ r.op = "create" => uuidNext < Len(SeedData) + MaxCreated
         /\ sreq' = [op |-> r.op, id |-> r.id, body |-> r.body, q |-> r.q, page |-> r.page,
                     pageSize |-> r.pageSize, order |-> r.order, fault |-> fault,
                     gone |-> Begun.gone, goneAt |-> Begun.goneAt,
                     flight |-> Begun.flight, issued |-> Begun.issued]
    /\ UNCHANGED <<esIndex, esVisible, esExists, uuidNext, phase, esCalls, sresp>>
    /\ UNCHANGED <<convertVars, travelVars>>

MovieIssue ==
    /\ Running(sreq)
    /\ sresp = NoResponse
    /\ sreq.flight \in {"none", "returned"}
    /\ \E plan \in {MoviePlan(sreq)} :
          /\ sreq.issued < Len(plan.calls)
          /\ sreq' = Issued(sreq, EsCarriesContext(plan.calls[sreq.issued + 1].api))
          /\ esCalls' = SubSeq(plan.calls, 1, sreq.issued + 1)
    /\ UNCHANGED <<esIndex, esVisible, esExists, uuidNext, phase, sresp>>
    /\ UNCHANGED <<convertVars, travelVars>>

MovieReturn ==
    /\ Running(sreq)
    /\ sreq.flight = "open"
    /\ sreq' = Returned(sreq, EsCarriesContext(esCalls[sreq.issued].api))
    /\ UNCHANGED <<esIndex, esVisible, esExists, uuidNext, phase, esCalls, sresp>>
    /\ UNCHANGED <<convertVars, travelVars>>

\* The handler writes its response.  After an aborted call it is on the path
\* of a call that failed (err != nil); when the call was in flight as the
\* client went away, the index may or may not have carried it out.
MovieRespond ==
    /\ Running(sreq)
    /\ sresp = NoResponse
    /\ sreq.flight \in {"none", "returned", "aborted"}
    /\ \E plan \in {MoviePlanWith(sreq, IF sreq.flight = "aborted" THEN "transport"
                                         ELSE sreq.fault)} :
         /\ sreq.issued = Len(plan.calls)
         /\ \E served \in {corsMiddleware(MovieRoute(sreq.op), esIndex, esVisible, plan)} :
               /\ sresp' = served.resp
               /\ esVisible' = served.visible
               /\ \/ esIndex' = served.index
                  \/ /\ sreq.flight = "aborted"
                     /\ sreq.goneAt = sreq.issued
                     /\ sreq.op = "delete"
                     /\ esIndex' = Remove(esIndex, sreq.id)
    /\ uuidNext' = IF sreq.op = "create" /\ BindMovie(sreq.body) THEN uuidNext + 1 ELSE uuidNext
    /\ UNCHANGED <<esExists, phase, sreq, esCalls>>
    /\ UNCHANGED <<convertVars, travelVars>>

MovieClientGone ==
    /\ Running(sreq)
    /\ sresp = NoResponse
    /\ ~sreq.gone
    /\ sreq' = Disconnected(sreq)
    /\ UNCHANGED <<esIndex, esVisible, esExists, uuidNext, phase, esCalls, sresp>>
    /\ UNCHANGED <<convertVars, travelVars>>

MovieOver == (sresp # NoResponse \/ sreq.op = "boot") /\ SearchDone

\* ---- the converter
ConvertPlan(r) == withCORS(r, r.upstream)

ConvertBegin ==
    /\ Quiet
    /\ MovieNotStarted
    /\ \E amount \in {NoParam, Param(<<"a", "b", "c">>)}, upstream \in Upstreams :
         creq' = [op |-> "convert", entry |-> "server", method |-> "GET",
                  path |-> "/api/convert", base |-> Param(<<"u", "s", "d">>),
                  target |-> Param(<<"E", "U", "R">>), amount |-> amount,
                  upstream |-> upstream,
                  gone |-> Begun.gone, goneAt |-> Begun.goneAt,
                  flight |-> Begun.flight, issued |-> Begun.issued]
    /\ UNCHANGED <<cfetch, cresp>>
    /\ UNCHANGED <<searchVars, travelVars>>

ConvertIssue ==
    /\ Running(creq)
    /\ cresp = NoReply
    /\ creq.flight \in {"none", "returned"}
    /\ \E plan \in {ConvertPlan(creq)} :
          /\ creq.issued < Len(plan.fetches)
          /\ cfetch' = SubSeq(plan.fetches, 1, creq.issued + 1)
    /\ creq' = Issued(creq, FetchCarriesContext)
    /\ UNCHANGED cresp
    /\ UNCHANGED <<searchVars, travelVars>>

ConvertReturn ==
    /\ Running(creq)
    /\ creq.flight = "open"
    /\ creq' = Returned(creq, FetchCarriesContext)
    /\ UNCHANGED <<cfetch, cresp>>
    /\ UNCHANGED <<searchVars, travelVars>>

ConvertRespond ==
    /\ Running(creq)
    /\ cresp = NoReply
    /\ creq.flight \in {"none", "returned"}
    /\ \E plan \in {ConvertPlan(creq)} :
          /\ creq.issued = Len(plan.fetches)
          /\ cresp' = plan.resp
    /\ UNCHANGED <<creq, cfetch>>
    /\ UNCHANGED <<searchVars, travelVars>>

ConvertClientGone ==
    /\ Running(creq)
    /\ cresp = NoReply
    /\ ~creq.gone
    /\ creq' = Disconnected(creq)
    /\ UNCHANGED <<cfetch, cresp>>
    /\ UNCHANGED <<searchVars, travelVars>>

ConvertOver == cresp # NoReply /\ ConvertDone

NextCancel ==
    \/ TravelBegin
    \/ TravelIssue
    \/ TravelReturn
    \/ TravelRespond
    \/ TravelClientGone
    \/ TravelOver
    \/ Quiet /\ Bootstrap
    \/ MovieBegin
    \/ MovieIssue
    \/ MovieReturn
    \/ MovieRespond
    \/ MovieClientGone
    \/ MovieOver
    \/ ConvertBegin
    \/ ConvertIssue
    \/ ConvertReturn
    \/ ConvertRespond
    \/ ConvertClientGone
    \/ ConvertOver

SpecCancel == Init /\ [][NextCancel]_vars

\* A step of a request whose client has gone: no further call goes out, and
\* a call that is in flight does not complete, it is aborted.
CancelHonoured(r, rNext) ==
    (Running(r) /\ Running(rNext) /\ r.gone) =>
        /\ rNext.flight = "open" => r.flight = "open"
        /\ r.flight = "open" => rNext.flight \in {"open", "aborted"}

\* C25: when the client disconnects and the request's context is cancelled
\* while an external call of the request is in flight, that call is aborted
\* and no further external call is started for the request; this holds for
\* every external call of every handler (index search, get, index and delete,
\* the SQL statements, the finance-API fetch).
C25_Cancellation ==
    [][/\ CancelHonoured(treq, treq')
       /\ CancelHonoured(sreq, sreq')
       /\ CancelHonoured(creq, creq')]_vars

\* The client of an update of a place went away while the UPDATE was in
\* flight; the statement completed, the handler went on to its three SELECTs
\* and wrote 200.
C25_OrphanedStatements ==
    /\ treq.op = "updatePlace"
    /\ treq.gone
    /\ treq.goneAt = 1
    /\ treq.issued = 4
    /\ tresp.status = StatusOK

\* The same for indexMovie and for fetchRate: the call completed although the
\* client had gone while it was in flight.
C25_OrphanedIndex ==
    /\ sreq.op = "create"
    /\ sreq.gone
    /\ sreq.goneAt = 1
    /\ sresp.status = StatusCreated

C25_OrphanedFetch ==
    /\ creq.op = "convert"
    /\ creq.gone
    /\ creq.goneAt = 1
    /\ cresp.status = StatusOK

\* What holds: the calls that are given the request's context (es.Search,
\* es.Get, es.Delete) are aborted when the client goes away, and their
\* handlers make no other call.
C25_BoundCalls ==
    [][(Running(sreq) /\ sreq.op \in {"search", "get", "delete"})
          => CancelHonoured(sreq, sreq')]_vars

\* A delete was aborted and its handler answered 500 to nobody.
C25_AbortedDelete ==
    /\ sreq.op = "delete"
    /\ sreq.flight = "aborted"
    /\ sresp.status = StatusInternalServerError

(***************************************************************************)
(* The required fields of the stored rows.                                 *)
(***************************************************************************)
NamedCountries == \A id \in DOMAIN countries : countries[id].name # <<>>

NamedPlaces ==
    \A id \in DOMAIN places : places[id].name # <<>> /\ places[id].category # <<>>

\* C26: after any sequence of create and update requests every stored country
\* has a non-empty name and every stored place has a non-empty name and
\* category: an update cannot store a value that the create operation would
\* have rejected as blank.
C26_NonBlank == NamedCountries /\ NamedPlaces

\* An update with a name of white space only was answered 200 and the country
\* is stored with the empty name.
C26_BlankCountry ==
    /\ treq.op = "updateCountry"
    /\ treq.body.ok
    /\ treq.body.members["name"] = JStr(<<" ">>)
    /\ tresp.status = StatusOK
    /\ 1 \in DOMAIN countries
    /\ countries[1].name = <<>>

\* The same for a place.
C26_BlankPlace ==
    /\ treq.op = "updatePlace"
    /\ treq.body.ok
    /\ treq.body.members["name"] = JStr(<<" ">>)
    /\ tresp.status = StatusOK
    /\ 1 \in DOMAIN places
    /\ places[1].name = <<>>

\* What holds: a row as its create request stored it has its required fields
\* (checked where no update is made).
C26_AsCreated == [][UNCHANGED <<countries, places>> \/ (NamedCountries' /\ NamedPlaces')]_vars

(***************************************************************************)
(* Concurrent requests to the travel blog.                                 *)
(*                                                                         *)
(* gin runs each request in a goroutine of its own and the handlers share  *)
(* nothing but the database, so two requests interleave statement by       *)
(* statement; a statement is atomic in the database.  tclients[c] is the   *)
(* request of client c: its handler (op), the row it names (id), the       *)
(* parameters of its write statement (args), the statement it is at (pc),  *)
(* the handler's locals (countryID, country), whether its write changed a  *)
(* row (wrote), how many statements of other requests have changed a row   *)
(* since (later, counted up to MaxLater) and the response (resp).  The     *)
(* requests are valid ones: they have passed the checks of their handlers. *)
(***************************************************************************)
Args(name, category, city, description) ==
    [name |-> name, category |-> category, city |-> city, description |-> description]

RaceRequest(op, id, args) ==
    [op |-> op, id |-> id, args |-> args,
     pc |-> CASE op = "createCountry" -> "INSERT countries"
              [] op = "updateCountry" -> "UPDATE countries"
              [] op = "deleteCountry" -> "DELETE countries"
              [] op = "createPlace" -> "INSERT places"
              [] op = "updatePlace" -> "UPDATE places"
              [] op = "deletePlace" -> "SELECT country_id",
     countryID |-> 0, country |-> NoCountry, wrote |-> FALSE, later |-> 0,
     resp |-> NoResponse]

RaceRequests ==
    { RaceRequest("createCountry", 0, Args(TextParam(<<"A">>), NilParam, NilParam, TextParam(<<>>))),
      RaceRequest("updateCountry", 1, Args(TextParam(<<"B">>), NilParam, NilParam, NilParam)),
      RaceRequest("deleteCountry", 1, Args(NilParam, NilParam, NilParam, NilParam)),
      RaceRequest("createPlace", 1, Args(TextParam(<<"P">>), TextParam(<<"c">>), TextParam(<<>>),
                                         TextParam(<<>>))),
      RaceRequest("updatePlace", 1, Args(TextParam(<<"Q">>), NilParam, NilParam, NilParam)),
      RaceRequest("updatePlace", 1, Args(TextParam(<<"R">>), NilParam, NilParam, NilParam)),
      RaceRequest("updatePlace", 1, Args(NilParam, NilParam, TextParam(<<"y">>), NilParam)),
      RaceRequest("deletePlace", 1, Args(NilParam, NilParam, NilParam, NilParam)) }

At(c, stmt) == tclients[c].op # "none" /\ tclients[c].resp = NoResponse /\ tclients[c].pc = stmt

\* The status a handler writes with the country: 201 for the creates.
SuccessStatus(op) == IF op \in {"createCountry", "createPlace"} THEN StatusCreated ELSE StatusOK

\* c.JSON(status, body) through the middleware of main.
Written(status, body) == WithHeaders(Response(status, body), TravelCorsHeaders)

\* Client c's statement has changed a row: the requests in progress that
\* wrote before it have one more write after theirs.
MaxLater == 2

Noted(c, t) ==
    [d \in Clients |->
        IF d # c /\ t[d].op # "none" /\ t[d].wrote /\ t[d].later < MaxLater
        THEN [t[d] EXCEPT !.later = @ + 1]
        ELSE t[d]]

TablesKept == UNCHANGED <<countries, places, countrySeq, placeSeq>>
OthersKept == UNCHANGED <<treq, tsql, tresp>> /\ UNCHANGED <<searchVars, convertVars>>

RaceBegin ==
    /\ \E c \in Clients, r \in RaceRequests :
          /\ tclients[c] = NoRequest
          /\ tclients' = [tclients EXCEPT ![c] = r]
    /\ TablesKept
    /\ OthersKept

\* INSERT INTO countries(name, description) VALUES($1, $2) RETURNING id
ExecInsertCountries ==
    /\ \E c \in Clients :
          /\ At(c, "INSERT countries")
          /\ countrySeq < MaxCountries
          /\ LET id == countrySeq + 1
             IN  /\ countrySeq' = id
                 /\ countries' = Put(countries, id,
                                     [id |-> id, name |-> tclients[c].args.name.v,
                                      description |-> tclients[c].args.description.v])
                 /\ tclients' = Noted(c, [tclients EXCEPT ![c].pc = "SELECT countries",
                                                    ![c].countryID = id,
                                                    ![c].wrote = TRUE])
    /\ UNCHANGED <<places, placeSeq>>
    /\ OthersKept

\* UPDATE countries SET ... WHERE id=$3, and RowsAffected.
ExecUpdateCountries ==
    /\ \E c \in Clients :
          /\ At(c, "UPDATE countries")
          /\ countries' = UpdateCountries(countries, tclients[c].args.name,
                                          tclients[c].args.description, tclients[c].id)
          /\ IF tclients[c].id \in DOMAIN countries
             THEN tclients' = Noted(c, [tclients EXCEPT ![c].pc = "SELECT countries",
                                                    ![c].countryID = tclients[c].id,
                                                    ![c].wrote = TRUE])
             ELSE tclients' = [tclients EXCEPT ![c].resp =
                                   Written(StatusNotFound, ErrorBody("country not found"))]
    /\ UNCHANGED <<places, countrySeq, placeSeq>>
    /\ OthersKept

\* DELETE FROM countries WHERE id=$1, and RowsAffected.
ExecDeleteCountries ==
    /\ \E c \in Clients :
          /\ At(c, "DELETE countries")
          /\ \E db \in {DeleteCountries(DbNow, tclients[c].id)} :
                /\ countries' = db.countries
                /\ places' = db.places
          /\ IF tclients[c].id \in DOMAIN countries
             THEN tclients' = Noted(c, [tclients EXCEPT ![c].resp =
                                           Written(StatusNoContent, NoBody)])
             ELSE tclients' = [tclients EXCEPT ![c].resp =
                                   Written(StatusNotFound, ErrorBody("country not found"))]
    /\ UNCHANGED <<countrySeq, placeSeq>>
    /\ OthersKept

\* INSERT INTO places(country_id, ...) VALUES(...) RETURNING id: the foreign
\* key refuses a country_id no country has.
ExecInsertPlaces ==
    /\ \E c \in Clients :
          /\ At(c, "INSERT places")
          /\ placeSeq < MaxPlaces
          /\ placeSeq' = placeSeq + 1
          /\ IF tclients[c].id \in DOMAIN countries
             THEN /\ places' = Put(places, placeSeq + 1,
                                   [id |-> placeSeq + 1, country_id |-> tclients[c].id,
                                    name |-> tclients[c].args.name.v,
                                    category |-> tclients[c].args.category.v,
                                    city |-> tclients[c].args.city.v,
                                    description |-> tclients[c].args.description.v,
                                    visited_at |-> SqlNull])
                  /\ tclients' = Noted(c, [tclients EXCEPT ![c].pc = "SELECT countries",
                                                    ![c].countryID = tclients[c].id,
                                                    ![c].wrote = TRUE])
             ELSE /\ places' = places
                  /\ tclients' = [tclients EXCEPT ![c].resp = WithHeaders(DatabaseError,
                                                                          TravelCorsHeaders)]
    /\ UNCHANGED <<countries, countrySeq>>
    /\ OthersKept

\* UPDATE places SET ... WHERE id=$7, and RowsAffected.
ExecUpdatePlaces ==
    /\ \E c \in Clients :
          /\ At(c, "UPDATE places")
          /\ places' = UpdatePlaces(places, tclients[c].args.name, tclients[c].args.category,
                                    tclients[c].args.city, tclients[c].args.description,
                                    FALSE, SqlNull, tclients[c].id)
          /\ IF tclients[c].id \in DOMAIN places
             THEN tclients' = Noted(c, [tclients EXCEPT ![c].pc = "SELECT country_id", ![c].wrote = TRUE])
             ELSE tclients' = [tclients EXCEPT ![c].resp =
                                   Written(StatusNotFound, ErrorBody("place not found"))]
    /\ UNCHANGED <<countries, countrySeq, placeSeq>>
    /\ OthersKept

\* SELECT country_id FROM places WHERE id=$1: sql.ErrNoRows is 404 in
\* deletePlace and an error like any other (500) in updatePlace.
QueryCountryID ==
    /\ \E c \in Clients :
          /\ At(c, "SELECT country_id")
          /\ IF tclients[c].id \in DOMAIN places
             THEN tclients' = [tclients EXCEPT
                                  ![c].countryID = places[tclients[c].id].country_id,
                                  ![c].pc = IF tclients[c].op = "deletePlace"
                                            THEN "DELETE places" ELSE "SELECT countries"]
             ELSE tclients' = [tclients EXCEPT ![c].resp =
                                   IF tclients[c].op = "deletePlace"
                                   THEN Written(StatusNotFound, ErrorBody("place not found"))
                                   ELSE WithHeaders(DatabaseError, TravelCorsHeaders)]
    /\ TablesKept
    /\ OthersKept

\* DELETE FROM places WHERE id=$1, and RowsAffected.
ExecDeletePlaces ==
    /\ \E c \in Clients :
          /\ At(c, "DELETE places")
          /\ places' = DeletePlaces(DbNow, tclients[c].id).places
          /\ IF tclients[c].id \in DOMAIN places
             THEN tclients' = Noted(c, [tclients EXCEPT ![c].pc = "SELECT countries", ![c].wrote = TRUE])
             ELSE tclients' = [tclients EXCEPT ![c].resp =
                                   Written(StatusNotFound, ErrorBody("place not found"))]
    /\ UNCHANGED <<countries, countrySeq, placeSeq>>
    /\ OthersKept

\* fetchCountry, its first SELECT: for sql.ErrNoRows it returns nil, nil and
\* the handler writes that nil with its status of success.
QueryCountry ==
    /\ \E c \in Clients :
          /\ At(c, "SELECT countries")
          /\ LET id == tclients[c].countryID
             IN  IF id \in DOMAIN countries
                 THEN tclients' = [tclients EXCEPT
                                      ![c].country = [id |-> id, name |-> countries[id].name,
                                                      description |-> countries[id].description],
                                      ![c].pc = "SELECT places"]
                 ELSE tclients' = [tclients EXCEPT ![c].resp =
                                       Written(SuccessStatus(tclients[c].op), CountryBody(NoCountry))]
    /\ TablesKept
    /\ OthersKept

\* fetchCountry, its second SELECT (fetchPlaces), and the handler's c.JSON.
QueryPlaces ==
    /\ \E c \in Clients :
          /\ At(c, "SELECT places")
          /\ LET country == [id |-> tclients[c].country.id, name |-> tclients[c].country.name,
                             description |-> tclients[c].country.description,
                             places |-> fetchPlaces(DbNow, tclients[c].countryID)]
             IN  tclients' = [tclients EXCEPT ![c].resp =
                                  Written(SuccessStatus(tclients[c].op), CountryBody(country))]
    /\ TablesKept
    /\ OthersKept

\* The response of a client's request has been delivered.
RaceOver ==
    /\ \E c \in Clients :
          /\ tclients[c].op # "none"
          /\ tclients[c].resp # NoResponse
          /\ tclients' = [tclients EXCEPT ![c] = NoRequest]
    /\ TablesKept
    /\ OthersKept

NextRace ==
    \/ RaceBegin
    \/ ExecInsertCountries
    \/ ExecUpdateCountries
    \/ ExecDeleteCountries
    \/ ExecInsertPlaces
    \/ ExecUpdatePlaces
    \/ QueryCountryID
    \/ ExecDeletePlaces
    \/ QueryCountry
    \/ QueryPlaces
    \/ RaceOver

SpecRace == Init /\ [][NextRace]_vars

\* C27: after any sequence and any interleaving of create, update and delete
\* requests every stored place references a country that exists: deleting a
\* country removes its places, no place is created under a country that does
\* not exist, and no update changes a place's country.
C27_References == \A p \in DOMAIN places : places[p].country_id \in DOMAIN countries

\* A country that had a place was deleted while another request was in
\* progress, and the place went with it.
C27_Witness ==
    \E c \in Clients :
        /\ tclients[c].op = "deleteCountry"
        /\ tclients[c].resp.status = StatusNoContent
        /\ placeSeq = 1
        /\ places = EmptyTable
        /\ \E d \in Clients \ {c} : tclients[d].op # "none" /\ tclients[d].resp = NoResponse

\* A place was posted under a country that a concurrent request had deleted.
C27_RefusedPlace ==
    \E c \in Clients :
        /\ tclients[c].op = "createPlace"
        /\ tclients[c].resp.status = StatusInternalServerError
        /\ countrySeq = 1
        /\ places = EmptyTable

\* No update changes the country of a place.
C27_CountryKept ==
    [][\A p \in DOMAIN places \cap DOMAIN places' : places'[p].country_id = places[p].country_id]_vars

(***************************************************************************)
(* Concurrent partial updates of one place.                                *)
(***************************************************************************)
PlaceTextFields == {"name", "category", "city", "description"}

\* Both clients are updating the same place, both UPDATEs have been applied,
\* and no other statement has changed a row since the first of the two.
BothUpdated(a, b) ==
    /\ a # b
    /\ tclients[a].op = "updatePlace" /\ tclients[b].op = "updatePlace"
    /\ tclients[a].id = tclients[b].id
    /\ tclients[a].wrote /\ tclients[b].wrote
    /\ {tclients[a].later, tclients[b].later} = {0, 1}

Mentions(c, f) == ~tclients[c].args[f].nil

\* C28: two concurrent partial updates of the same place that mention
\* disjoint sets of fields both take effect in every interleaving, and when
\* they mention the same field the stored value is the one of the update the
\* database applied last.
C28_BothTakeEffect ==
    \A a, b \in Clients :
        BothUpdated(a, b) =>
            /\ tclients[a].id \in DOMAIN places
            /\ \A f \in PlaceTextFields :
                  LET stored == places[tclients[a].id][f]
                  IN  /\ (Mentions(a, f) /\ ~Mentions(b, f)) => stored = tclients[a].args[f].v
                      /\ (Mentions(a, f) /\ Mentions(b, f) /\ tclients[a].later = 0)
                            => stored = tclients[a].args[f].v

\* One update gave the name and the other the city, and the row has both.
C28_Witness ==
    \E a, b \in Clients :
        /\ BothUpdated(a, b)
        /\ Mentions(a, "name") /\ ~Mentions(b, "name")
        /\ Mentions(b, "city") /\ ~Mentions(a, "city")
        /\ tclients[a].later = 1
        /\ tclients[a].resp = NoResponse
        /\ places[1].name = tclients[a].args.name.v
        /\ places[1].city = tclients[b].args.city.v

\* Both updates gave the name, and the row has the name of the later one.
C28_LastWriter ==
    \E a, b \in Clients :
        /\ BothUpdated(a, b)
        /\ Mentions(a, "name") /\ Mentions(b, "name")
        /\ tclients[a].args.name # tclients[b].args.name
        /\ tclients[a].later = 0
        /\ places[1].name = tclients[a].args.name.v

(***************************************************************************)
(* What a write handler reports after its write.                           *)
(***************************************************************************)
\* Client c's createCountry, updateCountry or updatePlace has changed a row
\* and has written its response.
Committed(c) ==
    /\ tclients[c].op \in {"createCountry", "updateCountry", "updatePlace"}
    /\ tclients[c].wrote
    /\ tclients[c].resp # NoResponse

CarriesCountry(resp) == resp.status \in 200..299 /\ resp.body.kind = "country"

\* C29: whenever a write handler of the travel blog has changed the store, its
\* response is a 2xx status carrying the affected, non-null country, in every
\* interleaving with concurrent delete requests: a committed write is never
\* reported as a 5xx failure or with an empty body.
C29_Reported == \A c \in Clients : Committed(c) => CarriesCountry(tclients[c].resp)

\* An update of a place was applied, a concurrent DELETE removed the place,
\* and the update was answered 500.
C29_ReportedFailed ==
    \E c \in Clients :
        /\ Committed(c)
        /\ tclients[c].op = "updatePlace"
        /\ tclients[c].resp.status = StatusInternalServerError
        /\ tclients[c].later = 1

\* A country was inserted, a concurrent DELETE removed it, and the create was
\* answered 201 with null as its body.
C29_ReportedNull ==
    \E c \in Clients :
        /\ Committed(c)
        /\ tclients[c].op = "createCountry"
        /\ tclients[c].resp.status = StatusCreated
        /\ tclients[c].resp.body = CountryBody(NoCountry)

\* What holds: a write that no statement of another request has followed is
\* reported with its country.
C29_Undisturbed ==
    \A c \in Clients :
        (Committed(c) /\ tclients[c].later = 0) => CarriesCountry(tclients[c].resp)

(***************************************************************************)
(* The offset of a search, as a 64-bit product.                            *)
(***************************************************************************)
\* (page - 1) * pageSize in unbounded arithmetic, as the low 64 bits and what
\* is carried out of them.
ExactOffset ==
    MulAddLimbs(I64Dec(RequestedPage(sreq.page)), RequestedPageSize(sreq.pageSize), 0)

\* The product fits Go's int: nothing is carried out and the sign bit is clear.
OffsetFits == ExactOffset.carry = 0 /\ ~I64IsNeg(ExactOffset.limbs)

\* C30: for every page the search handler accepts as an integer and every
\* effective page size in 1..50, the offset from = (page - 1) * pageSize sent
\* to the index is non-negative and equals the mathematical product: the
\* multiplication never wraps around.
C30_NoWrap ==
    Searched =>
        /\ ~I64IsNeg(SearchCall.body.from)
        /\ OffsetFits
        /\ SearchCall.body.from = ExactOffset.limbs

\* page=9223372036854775807 with pageSize=5: the product needs more than 64
\* bits, and the offset sent is 9223372036854775798, which is not negative and
\* not the product.
C30_Wrapped ==
    /\ Searched
    /\ sreq.page = MaxInt64Text
    /\ sreq.pageSize = <<"5">>
    /\ ~OffsetFits
    /\ SearchCall.body.from = <<LimbBase - 10, LimbBase - 1, LimbBase - 1, LimbHalf - 1>>

\* The same page with pageSize=2: the product wraps to -4.
C30_Negative ==
    /\ Searched
    /\ sreq.page = MaxInt64Text
    /\ sreq.pageSize = <<"2">>
    /\ SearchCall.body.from = I64(-4)

\* What holds: the offset sent is the low 64 bits of the product, and it is
\* the product whenever the product fits.
C30_LowBits ==
    Searched =>
        /\ SearchCall.body.from = ExactOffset.limbs
        /\ OffsetFits => ~I64IsNeg(SearchCall.body.from)

=============================================================================
